---- MODULE Spec2Model ----
(***************************************************************************)
(* A model of the Forkline core: canonicalization, the first-divergence    *)
(* diff engine and the replay-mode guardrails.                             *)
(*                                                                         *)
(* Values of the canonical value domain are tagged records; strings, keys  *)
(* and canonical bytes are sequences of one-character tokens, so that      *)
(* canon is a real conversion (sorting, normalising, quoting) and two      *)
(* different values may or may not canonicalise to the same bytes.         *)
(***************************************************************************)
EXTENDS Integers, Sequences, FiniteSets, TLC

\* Optional[T]: None is the empty tuple, Some(x) a one-element tuple.
None == <<>>
Some(x) == <<x>>

Min(x, y) == IF x <= y THEN x ELSE y
Max(x, y) == IF x >= y THEN x ELSE y

RECURSIVE Concat(_)
Concat(ss) == IF ss = <<>> THEN <<>> ELSE Head(ss) \o Concat(Tail(ss))

\* ------------------------------------------------------------------------
\* The canonical value domain
\* ------------------------------------------------------------------------
VNull == [kind |-> "null"]
VBool(b) == [kind |-> "bool", b |-> b]
VInt(n) == [kind |-> "int", n |-> n]
\* A float is named by its shortest repr; "nan", "inf" and "-inf" are the
\* non-finite ones.
VFloat(f) == [kind |-> "float", f |-> f]
VStr(s) == [kind |-> "str", s |-> s]
VBytes(d) == [kind |-> "bytes", d |-> d]
\* A mapping is the insertion-ordered sequence of its <<key, value>> items.
VDict(items) == [kind |-> "dict", items |-> items]
VList(items) == [kind |-> "list", items |-> items]
VTuple(items) == [kind |-> "tuple", items |-> items]

\* One-character tokens in code point order ("LF", "CR" are the control
\* characters, "ACUTE" is the combining acute accent U+0301).
Alphabet ==
    << "LF", "CR", "\"", ",", "-", ".",
       "0", "1", "2", "3", "4", "5", "6", "7", "8", "9", ":",
       "A", "B", "C", "D", "E", "F", "G", "H", "I", "J", "K", "L", "M",
       "N", "O", "P", "Q", "R", "S", "T", "U", "V", "W", "X", "Y", "Z",
       "[", "\\", "]", "_",
       "a", "b", "c", "d", "e", "f", "g", "h", "i", "j", "k", "l", "m",
       "n", "o", "p", "q", "r", "s", "t", "u", "v", "w", "x", "y", "z",
       "{", "}", "e_acute", "ACUTE" >>

CharRankTable ==
    [c \in {Alphabet[k] : k \in 1..Len(Alphabet)} |->
        CHOOSE k \in 1..Len(Alphabet) : Alphabet[k] = c]

CharRank(c) == CharRankTable[c]

\* Python's str ordering: lexicographic by code point.
RECURSIVE StrLess(_, _)
StrLess(s, t) ==
    IF t = <<>> THEN FALSE
    ELSE IF s = <<>> THEN TRUE
    ELSE IF Head(s) = Head(t) THEN StrLess(Tail(s), Tail(t))
    ELSE CharRank(Head(s)) < CharRank(Head(t))

Digit(d) == <<"0", "1", "2", "3", "4", "5", "6", "7", "8", "9">>[d + 1]

RECURSIVE NatChars(_)
NatChars(n) == IF n < 10 THEN <<Digit(n)>> ELSE NatChars(n \div 10) \o <<Digit(n % 10)>>

IntChars(n) == IF n < 0 THEN <<"-">> \o NatChars(-n) ELSE NatChars(n)

\* ------------------------------------------------------------------------
\* canon.py
\* ------------------------------------------------------------------------

\* unicodedata.normalize("NFC", s): the one composition of the alphabet.
RECURSIVE Nfc(_)
Nfc(s) ==
    IF Len(s) >= 2 /\ s[1] = "e" /\ s[2] = "ACUTE"
        THEN <<"e_acute">> \o Nfc(Tail(Tail(s)))
    ELSE IF s = <<>> THEN <<>>
    ELSE <<Head(s)>> \o Nfc(Tail(s))

\* s.replace("\r\n", "\n")
RECURSIVE ReplaceCrLf(_)
ReplaceCrLf(s) ==
    IF Len(s) >= 2 /\ s[1] = "CR" /\ s[2] = "LF"
        THEN <<"LF">> \o ReplaceCrLf(Tail(Tail(s)))
    ELSE IF s = <<>> THEN <<>>
    ELSE <<Head(s)>> \o ReplaceCrLf(Tail(s))

\* s.replace("\r", "\n")
ReplaceCr(s) == [k \in 1..Len(s) |-> IF s[k] = "CR" THEN "LF" ELSE s[k]]

_canon_str(s) == ReplaceCr(ReplaceCrLf(Nfc(s)))

\* hashlib.sha256(data).hexdigest(): an injective digest of the bytes.
sha256_hex(data) == <<"sha256">> \o data

\* sorted(value.items(), key=lambda x: str(x[0])): a stable insertion sort.
RECURSIVE InsertItem(_, _)
InsertItem(item, sorted) ==
    IF sorted = <<>> THEN <<item>>
    ELSE IF StrLess(item[1], Head(sorted)[1])
        THEN <<item>> \o sorted
    ELSE <<Head(sorted)>> \o InsertItem(item, Tail(sorted))

RECURSIVE SortItems(_)
SortItems(items) ==
    IF items = <<>> THEN <<>>
    ELSE InsertItem(items[Len(items)], SortItems(SubSeq(items, 1, Len(items) - 1)))

\* Float normalisation of a finite float: -0.0 collapses to 0.0.
NormalizeFloat(f) == IF f = "-0.0" THEN "0.0" ELSE f

RECURSIVE _normalize_value(_)
_normalize_value(v) ==
    CASE v.kind = "null" -> v
      [] v.kind = "bool" -> v
      [] v.kind = "int" -> v
      [] v.kind = "float" ->
            IF v.f = "nan" THEN VStr(<<"N", "a", "N">>)
            ELSE IF v.f = "inf" THEN VStr(<<"I", "n", "f", "i", "n", "i", "t", "y">>)
            ELSE IF v.f = "-inf" THEN VStr(<<"-", "I", "n", "f", "i", "n", "i", "t", "y">>)
            ELSE VFloat(NormalizeFloat(v.f))
      [] v.kind = "str" -> VStr(_canon_str(v.s))
      [] v.kind = "bytes" ->
            VDict(<< << <<"_", "_", "b", "y", "t", "e", "s", "_", "_">>, VBool(TRUE) >>,
                     << <<"s", "h", "a", "2", "5", "6">>, VStr(sha256_hex(v.d)) >>,
                     << <<"l", "e", "n", "g", "t", "h">>, VInt(Len(v.d)) >> >>)
      [] v.kind = "dict" ->
            LET sorted == SortItems(v.items)
            IN  VDict([k \in 1..Len(sorted) |->
                         <<sorted[k][1], _normalize_value(sorted[k][2])>>])
      [] OTHER ->
            VList([k \in 1..Len(v.items) |-> _normalize_value(v.items[k])])

\* json.dumps escaping of one character (ensure_ascii=False).
EscapeChar(c) ==
    CASE c = "\"" -> <<"\\", "\"">>
      [] c = "\\" -> <<"\\", "\\">>
      [] c = "LF" -> <<"\\", "n">>
      [] c = "CR" -> <<"\\", "r">>
      [] OTHER -> <<c>>

QuoteStr(s) == <<"\"">> \o Concat([k \in 1..Len(s) |-> EscapeChar(s[k])]) \o <<"\"">>

RECURSIVE JoinComma(_)
JoinComma(parts) ==
    IF parts = <<>> THEN <<>>
    ELSE IF Len(parts) = 1 THEN parts[1]
    ELSE parts[1] \o <<",">> \o JoinComma(Tail(parts))

\* json.dumps(value, sort_keys=True, ensure_ascii=False, separators=(",", ":"))
RECURSIVE JsonDumps(_)
JsonDumps(v) ==
    CASE v.kind = "null" -> <<"n", "u", "l", "l">>
      [] v.kind = "bool" -> IF v.b THEN <<"t", "r", "u", "e">> ELSE <<"f", "a", "l", "s", "e">>
      [] v.kind = "int" -> IntChars(v.n)
      [] v.kind = "float" -> <<v.f>>
      [] v.kind = "str" -> QuoteStr(v.s)
      [] v.kind = "dict" ->
            LET sorted == SortItems(v.items)
            IN  <<"{">>
                \o JoinComma([k \in 1..Len(sorted) |->
                      QuoteStr(sorted[k][1]) \o <<":">> \o JsonDumps(sorted[k][2])])
                \o <<"}">>
      [] OTHER ->
            <<"[">> \o JoinComma([k \in 1..Len(v.items) |-> JsonDumps(v.items[k])]) \o <<"]">>

_canon_json(v) == JsonDumps(_normalize_value(v))

canon(v) ==
    IF v.kind = "bytes" THEN v.d
    ELSE IF v.kind = "str" THEN _canon_str(v.s)
    ELSE _canon_json(v)

\* ------------------------------------------------------------------------
\* Python value equality (==), as json_diff uses it
\* ------------------------------------------------------------------------
IsNumber(v) == v.kind \in {"bool", "int", "float"}

\* Ten times the numeric value of a finite float of the model.
FloatTenths(f) ==
    CASE f = "0.0" -> 0
      [] f = "-0.0" -> 0
      [] f = "1.0" -> 10
      [] f = "1.5" -> 15
      [] f = "2.0" -> 20
      [] OTHER -> 0

IsFinite(v) == v.kind # "float" \/ v.f \notin {"nan", "inf", "-inf"}

NumTenths(v) ==
    CASE v.kind = "bool" -> IF v.b THEN 10 ELSE 0
      [] v.kind = "int" -> 10 * v.n
      [] OTHER -> FloatTenths(v.f)

NumEq(a, b) ==
    IF IsFinite(a) /\ IsFinite(b) THEN NumTenths(a) = NumTenths(b)
    ELSE IF IsFinite(a) \/ IsFinite(b) THEN FALSE
    ELSE a.f # "nan" /\ a.f = b.f

Keys(items) == {items[k][1] : k \in 1..Len(items)}
DictGet(items, key) == items[CHOOSE k \in 1..Len(items) : items[k][1] = key][2]

RECURSIVE PyEq(_, _)
PyEq(a, b) ==
    IF IsNumber(a) /\ IsNumber(b) THEN NumEq(a, b)
    ELSE IF a.kind # b.kind THEN FALSE
    ELSE CASE a.kind = "null" -> TRUE
           [] a.kind = "str" -> a.s = b.s
           [] a.kind = "bytes" -> a.d = b.d
           [] a.kind = "dict" ->
                 /\ Keys(a.items) = Keys(b.items)
                 /\ \A key \in Keys(a.items) :
                       PyEq(DictGet(a.items, key), DictGet(b.items, key))
           [] OTHER ->
                 /\ Len(a.items) = Len(b.items)
                 /\ \A k \in 1..Len(a.items) : PyEq(a.items[k], b.items[k])

\* ------------------------------------------------------------------------
\* json_diff.py
\* ------------------------------------------------------------------------
RECURSIVE InsertKey(_, _)
InsertKey(key, sorted) ==
    IF sorted = <<>> THEN <<key>>
    ELSE IF StrLess(key, Head(sorted)) THEN <<key>> \o sorted
    ELSE <<Head(sorted)>> \o InsertKey(key, Tail(sorted))

\* sorted(keys)
RECURSIVE SortedKeys(_)
SortedKeys(keys) ==
    IF keys = {} THEN <<>>
    ELSE LET key == CHOOSE x \in keys : TRUE
         IN  InsertKey(key, SortedKeys(keys \ {key}))

OpRemove(path, old) == [op |-> "remove", path |-> path, old |-> old]
OpAdd(path, value) == [op |-> "add", path |-> path, value |-> value]
OpReplace(path, old, new) == [op |-> "replace", path |-> path, old |-> old, new |-> new]

KeyPath(path, key) == path \o <<".">> \o key
IndexPath(path, k) == path \o <<"[">> \o IntChars(k) \o <<"]">>

RECURSIVE json_diff_at(_, _, _)
json_diff_at(old, new, path) ==
    IF old.kind = "null" /\ new.kind = "null" THEN <<>>
    ELSE IF old.kind # new.kind THEN
        IF IsNumber(old) /\ IsNumber(new)
            THEN IF ~NumEq(old, new) THEN <<OpReplace(path, old, new)>> ELSE <<>>
        ELSE <<OpReplace(path, old, new)>>
    ELSE IF old.kind = "dict" THEN
        LET old_keys == Keys(old.items)
            new_keys == Keys(new.items)
            removed == SortedKeys(old_keys \ new_keys)
            added == SortedKeys(new_keys \ old_keys)
            common == SortedKeys(old_keys \cap new_keys)
        IN  [k \in 1..Len(removed) |->
                OpRemove(KeyPath(path, removed[k]), DictGet(old.items, removed[k]))]
            \o [k \in 1..Len(added) |->
                OpAdd(KeyPath(path, added[k]), DictGet(new.items, added[k]))]
            \o Concat([k \in 1..Len(common) |->
                json_diff_at(DictGet(old.items, common[k]), DictGet(new.items, common[k]),
                             KeyPath(path, common[k]))])
    ELSE IF old.kind = "list" THEN
        LET min_len == Min(Len(old.items), Len(new.items))
        IN  Concat([k \in 1..min_len |->
                json_diff_at(old.items[k], new.items[k], IndexPath(path, k - 1))])
            \o [k \in 1..(Len(old.items) - min_len) |->
                OpRemove(IndexPath(path, min_len + k - 1), old.items[min_len + k])]
            \o [k \in 1..(Len(new.items) - min_len) |->
                OpAdd(IndexPath(path, min_len + k - 1), new.items[min_len + k])]
    ELSE IF ~PyEq(old, new) THEN <<OpReplace(path, old, new)>>
    ELSE <<>>

json_diff(old, new) == json_diff_at(old, new, <<"$">>)

\* ------------------------------------------------------------------------
\* types.py: Event, Step, Run (the fields the comparisons read)
\* ------------------------------------------------------------------------
Event(type, payload) == [type |-> type, payload |-> payload]
Step(idx, name, events) == [idx |-> idx, name |-> name, events |-> events]

\* The characters of an event type, for canon of (e.type, e.payload).
TypeChars(t) ==
    CASE t = "input" -> <<"i", "n", "p", "u", "t">>
      [] t = "output" -> <<"o", "u", "t", "p", "u", "t">>
      [] t = "error" -> <<"e", "r", "r", "o", "r">>
      [] t = "tool_call" -> <<"t", "o", "o", "l", "_", "c", "a", "l", "l">>
      [] OTHER -> <<"o", "t", "h", "e", "r">>

\* ------------------------------------------------------------------------
\* The recorded steps of the model
\* ------------------------------------------------------------------------
PayloadA == VDict(<< << <<"x">>, VInt(1) >>, << <<"y">>, VStr(<<"a", "LF">>) >> >>)
\* PayloadA with the keys in the other order and a CRLF newline.
PayloadAAlt == VDict(<< << <<"y">>, VStr(<<"a", "CR", "LF">>) >>, << <<"x">>, VInt(1) >> >>)
PayloadB == VDict(<< << <<"x">>, VInt(2) >> >>)

\* The (name, events) bodies a recorded step is drawn from. A run of the model
\* is the sequence of the table indices of its steps.
StepTable ==
    << [name |-> "gen", events |-> <<Event("input", PayloadA), Event("output", PayloadA)>>],
       \* the same signature as 1, another output
       [name |-> "gen", events |-> <<Event("input", PayloadA), Event("output", PayloadB)>>],
       \* another operation
       [name |-> "init", events |-> <<Event("input", PayloadB), Event("output", PayloadB)>>],
       \* canonically equal to 1
       [name |-> "gen", events |-> <<Event("input", PayloadAAlt), Event("output", PayloadA)>>],
       \* another input
       [name |-> "gen", events |-> <<Event("input", PayloadB), Event("output", PayloadB)>>],
       \* 2 with an error event
       [name |-> "gen", events |-> <<Event("input", PayloadA), Event("output", PayloadB),
                                     Event("error", PayloadA)>>],
       \* 1 with another error event
       [name |-> "gen", events |-> <<Event("input", PayloadA), Event("output", PayloadA),
                                     Event("error", PayloadB)>>],
       \* 1 with a tool call
       [name |-> "gen", events |-> <<Event("input", PayloadA), Event("tool_call", PayloadA),
                                     Event("output", PayloadA)>>],
       \* 1 with its events in the other order
       [name |-> "gen", events |-> <<Event("output", PayloadA), Event("input", PayloadA)>>] >>

StepKinds == {StepTable[k] : k \in 1..Len(StepTable)}

StepBody(step) == [name |-> step.name, events |-> step.events]

\* ------------------------------------------------------------------------
\* first_divergence.py
\* ------------------------------------------------------------------------
EXACT_MATCH == "exact_match"
INPUT_DIVERGENCE == "input_divergence"
OUTPUT_DIVERGENCE == "output_divergence"
OP_DIVERGENCE == "op_divergence"
MISSING_STEPS == "missing_steps"
EXTRA_STEPS == "extra_steps"
ERROR_DIVERGENCE == "error_divergence"

DivergenceType ==
    {EXACT_MATCH, INPUT_DIVERGENCE, OUTPUT_DIVERGENCE, OP_DIVERGENCE,
     MISSING_STEPS, EXTRA_STEPS, ERROR_DIVERGENCE}

RECURSIVE PayloadsOfType(_, _)
PayloadsOfType(events, event_type) ==
    IF events = <<>> THEN <<>>
    ELSE IF Head(events).type = event_type
        THEN <<Head(events).payload>> \o PayloadsOfType(Tail(events), event_type)
    ELSE PayloadsOfType(Tail(events), event_type)

_step_events_by_type(step, event_type) == VList(PayloadsOfType(step.events, event_type))

_step_input_hash(step) == sha256_hex(canon(_step_events_by_type(step, "input")))

_step_output_hash(step) == sha256_hex(canon(_step_events_by_type(step, "output")))

_step_has_error(step) == \E k \in 1..Len(step.events) : step.events[k].type = "error"

\* [(e.type, e.payload) for e in step.events]
AllEvents(step) ==
    VList([k \in 1..Len(step.events) |->
              VTuple(<<VStr(TypeChars(step.events[k].type)), step.events[k].payload>>)])

\* The hashes and canonical bytes of every step body, computed once: a step
\* of a run looks its own up by its (name, events).
Digests ==
    [body \in StepKinds |->
        [input_hash |-> _step_input_hash(body),
         output_hash |-> _step_output_hash(body),
         errors |-> canon(_step_events_by_type(body, "error")),
         all |-> canon(AllEvents(body))]]

\* A step that is not one of the table is hashed on the spot.
InTable(step) == StepBody(step) \in DOMAIN Digests

InputHashOf(step) ==
    IF InTable(step) THEN Digests[StepBody(step)].input_hash ELSE _step_input_hash(step)
OutputHashOf(step) ==
    IF InTable(step) THEN Digests[StepBody(step)].output_hash ELSE _step_output_hash(step)
ErrorsCanonOf(step) ==
    IF InTable(step) THEN Digests[StepBody(step)].errors
    ELSE canon(_step_events_by_type(step, "error"))
AllCanonOf(step) ==
    IF InTable(step) THEN Digests[StepBody(step)].all ELSE canon(AllEvents(step))

_step_signature(step) == <<step.name, InputHashOf(step)>>

_make_summary(step) ==
    [idx |-> step.idx,
     name |-> step.name,
     input_hash |-> InputHashOf(step),
     output_hash |-> OutputHashOf(step),
     event_count |-> Len(step.events),
     has_error |-> _step_has_error(step)]

\* Positions are 0-based as in the source: steps[i] is the TLA+ element i + 1.
At(steps, i) == steps[i + 1]

ContextStart(center, size) == Max(0, center - size)
\* Mutation of ContextEnd: the slice ends one position later.
ContextEnd_OneMore(steps, center, size) == Min(Len(steps), center + size + 2)

ContextEnd(steps, center, size) == Min(Len(steps), center + size + 1)

_get_context(steps, center, size) ==
    LET start == ContextStart(center, size)
        end == ContextEnd(steps, center, size)
    IN  [k \in 1..(end - start) |-> _make_summary(At(steps, start + k - 1))]

\* The positions _get_context reads.
ContextReads(steps, center, size) ==
    {p \in 0..(Len(steps) - 1) :
        p >= ContextStart(center, size) /\ p < ContextEnd(steps, center, size)}

\* Mutation of _classify_step_divergence: the final comparison of all events
\* is left out.
_classify_NoFallback(step_a, step_b) ==
    IF step_a.name # step_b.name THEN OP_DIVERGENCE
    ELSE IF InputHashOf(step_a) # InputHashOf(step_b) THEN INPUT_DIVERGENCE
    ELSE IF _step_has_error(step_a) # _step_has_error(step_b) THEN ERROR_DIVERGENCE
    ELSE IF /\ _step_has_error(step_a)
            /\ _step_has_error(step_b)
            /\ ErrorsCanonOf(step_a) # ErrorsCanonOf(step_b)
        THEN ERROR_DIVERGENCE
    ELSE IF OutputHashOf(step_a) # OutputHashOf(step_b) THEN OUTPUT_DIVERGENCE
    ELSE EXACT_MATCH

\* Mutation of _classify_step_divergence: outputs are compared before errors.
_classify_OutputFirst(step_a, step_b) ==
    IF step_a.name # step_b.name THEN OP_DIVERGENCE
    ELSE IF InputHashOf(step_a) # InputHashOf(step_b) THEN INPUT_DIVERGENCE
    ELSE IF OutputHashOf(step_a) # OutputHashOf(step_b) THEN OUTPUT_DIVERGENCE
    ELSE IF _step_has_error(step_a) # _step_has_error(step_b) THEN ERROR_DIVERGENCE
    ELSE IF /\ _step_has_error(step_a)
            /\ _step_has_error(step_b)
            /\ ErrorsCanonOf(step_a) # ErrorsCanonOf(step_b)
        THEN ERROR_DIVERGENCE
    ELSE IF AllCanonOf(step_a) # AllCanonOf(step_b) THEN OUTPUT_DIVERGENCE
    ELSE EXACT_MATCH

_classify_step_divergence(step_a, step_b) ==
    IF step_a.name # step_b.name THEN OP_DIVERGENCE
    ELSE IF InputHashOf(step_a) # InputHashOf(step_b) THEN INPUT_DIVERGENCE
    ELSE IF _step_has_error(step_a) # _step_has_error(step_b) THEN ERROR_DIVERGENCE
    ELSE IF /\ _step_has_error(step_a)
            /\ _step_has_error(step_b)
            /\ ErrorsCanonOf(step_a) # ErrorsCanonOf(step_b)
        THEN ERROR_DIVERGENCE
    ELSE IF OutputHashOf(step_a) # OutputHashOf(step_b) THEN OUTPUT_DIVERGENCE
    ELSE IF AllCanonOf(step_a) # AllCanonOf(step_b) THEN OUTPUT_DIVERGENCE
    ELSE EXACT_MATCH

\* Mutation of ResyncCandidates: the offsets stop one short of the window.
ResyncCandidates_ShortWindow(steps_a, steps_b, start, win) ==
    {<<c[1] + c[2], c[1]>> :
        c \in {d \in (0..(Min(win - 1, Len(steps_a) - start) - 1))
                        \X (0..(Min(win - 1, Len(steps_b) - start) - 1)) :
                  d[1] + d[2] >= 1}}

\* The (total_dist, offset_a) pairs of the two nested loops of _try_resync that
\* pass both `continue` tests, i.e. whose signatures get compared.
\* As <<total_dist, offset_a>>; the offsets are enumerated up to the end of
\* each run only, since a position past the end fails the second test.
ResyncCandidates(steps_a, steps_b, start, win) ==
    {<<c[1] + c[2], c[1]>> :
        c \in {d \in (0..(Min(win, Len(steps_a) - start) - 1))
                        \X (0..(Min(win, Len(steps_b) - start) - 1)) :
                  LET offset_a == d[1]
                      offset_b == d[2]
                      total_dist == offset_a + offset_b
                  IN  /\ total_dist \in 1..(2 * win)
                      /\ offset_a < Min(total_dist + 1, win)
                      /\ ~(offset_b < 0 \/ offset_b >= win)
                      /\ ~(\/ start + offset_a >= Len(steps_a)
                            \/ start + offset_b >= Len(steps_b))}}

\* Mutation of VisitedBefore: within one total_dist the larger offset_a comes
\* first.
VisitedBefore_LargerOffset(c, d) == c[1] < d[1] \/ (c[1] = d[1] /\ c[2] >= d[2])

\* Loop order: increasing total_dist, then increasing offset_a.
VisitedBefore(c, d) == c[1] < d[1] \/ (c[1] = d[1] /\ c[2] <= d[2])

\* The candidates whose two signatures are equal.
ResyncHits(steps_a, steps_b, start, cands) ==
    {c \in cands :
        _step_signature(At(steps_a, start + c[2]))
            = _step_signature(At(steps_b, start + c[1] - c[2]))}

\* Mutation of FirstHit: the loops keep the last hit instead of returning at
\* the first.
FirstHit_Last(hits) == CHOOSE c \in hits : \A d \in hits : VisitedBefore(d, c)

\* The hit the loops reach first, at which they return.
FirstHit(hits) == CHOOSE c \in hits : \A d \in hits : VisitedBefore(c, d)

\* The candidates visited until the loops return: all of them when none hits.
ResyncVisited(cands, hits) ==
    IF hits = {} THEN cands
    ELSE {c \in cands : VisitedBefore(c, FirstHit(hits))}

ResyncResult(start, hits, visited) ==
    [found |-> IF hits = {} THEN None
               ELSE Some(<<start + FirstHit(hits)[2],
                           start + FirstHit(hits)[1] - FirstHit(hits)[2]>>),
     reads_a |-> {start + c[2] : c \in visited},
     reads_b |-> {start + c[1] - c[2] : c \in visited}]

ResyncOver(steps_a, steps_b, start, cands) ==
    LET hits == ResyncHits(steps_a, steps_b, start, cands)
    IN  ResyncResult(start, hits, ResyncVisited(cands, hits))

\* _try_resync: the first candidate in loop order whose signatures are equal
\* (found, as the pair of positions), and the positions whose signature was
\* computed until the loops returned.
_try_resync(steps_a, steps_b, start, win) ==
    ResyncOver(steps_a, steps_b, start, ResyncCandidates(steps_a, steps_b, start, win))

\* _make_explanation: the text is the sequence of its pieces (literals, names
\* and digits).
NameOf(step) == IF step # None THEN step[1].name ELSE "?"

\* str() of an Optional[int] inside an f-string.
OptIntChars(x) == IF x = None THEN <<"None">> ELSE IntChars(x[1])

_make_explanation(dtype, step_a, step_b, idx_a, idx_b, gap_a, gap_b) ==
    CASE dtype = EXACT_MATCH -> <<"Runs are identical">>
      [] dtype = OP_DIVERGENCE ->
            <<"Step ">> \o IntChars(idx_a[1])
            \o <<": operation mismatch ('", NameOf(step_a), "' vs '", NameOf(step_b), "')">>
      [] dtype = INPUT_DIVERGENCE ->
            <<"Step ">> \o IntChars(idx_a[1]) \o <<" '", NameOf(step_a), "': input differs">>
      [] dtype = OUTPUT_DIVERGENCE ->
            <<"Step ">> \o IntChars(idx_a[1])
            \o <<" '", NameOf(step_a), "': output differs (same input)">>
      [] dtype = ERROR_DIVERGENCE ->
            <<"Step ">> \o IntChars(idx_a[1])
            \o <<" '", NameOf(step_a), "': error state differs">>
      [] dtype = MISSING_STEPS ->
            IF gap_a > 1
                THEN <<"Steps ">> \o IntChars(idx_a[1]) \o <<"..">>
                     \o IntChars(idx_a[1] + gap_a - 1) \o <<" from run_a missing in run_b">>
            ELSE <<"Step ">> \o IntChars(idx_a[1]) \o <<" from run_a missing in run_b">>
      [] dtype = EXTRA_STEPS ->
            IF gap_b > 1
                THEN <<"Steps ">> \o IntChars(idx_b[1]) \o <<"..">>
                     \o IntChars(idx_b[1] + gap_b - 1) \o <<" in run_b not present in run_a">>
            ELSE <<"Step ">> \o IntChars(idx_b[1]) \o <<" in run_b not present in run_a">>
      [] OTHER ->
            <<"Unknown divergence at indices (">> \o OptIntChars(idx_a) \o <<", ">>
            \o OptIntChars(idx_b) \o <<")">>

\* _compute_diffs: <<input_diff, output_diff>>, each an Optional list of operations.
_compute_diffs(step_a, step_b, dtype, show) ==
    IF step_a = None \/ step_b = None THEN <<None, None>>
    ELSE << IF dtype = INPUT_DIVERGENCE /\ show \in {"input", "both"}
                THEN Some(json_diff(_step_events_by_type(step_a[1], "input"),
                                    _step_events_by_type(step_b[1], "input")))
            ELSE None,
            IF dtype = OUTPUT_DIVERGENCE /\ show \in {"output", "both"}
                THEN Some(json_diff(_step_events_by_type(step_a[1], "output"),
                                    _step_events_by_type(step_b[1], "output")))
            ELSE None >>

FirstDivergenceResult(status, idx_a, idx_b, explanation, old_step, new_step, input_diff, output_diff, last_equal_idx, context_a, context_b) ==
    [status |-> status, idx_a |-> idx_a, idx_b |-> idx_b, explanation |-> explanation,
     old_step |-> old_step, new_step |-> new_step,
     input_diff |-> input_diff, output_diff |-> output_diff,
     last_equal_idx |-> last_equal_idx, context_a |-> context_a, context_b |-> context_b]

\* The positions inside both runs whose steps do not match.
Mismatches(sa, sb) ==
    {k \in 0..(Min(Len(sa), Len(sb)) - 1) :
        _classify_step_divergence(At(sa, k), At(sb, k)) # EXACT_MATCH}

\* gap_a and gap_b of the resync point found, 0 without one.
GapOf(found, at, side) == IF found = None THEN 0 ELSE found[1][side] - at

\* The status of a mismatch: the resync point found decides before the
\* step-local classification.
MismatchStatus(gap_a, gap_b, local) ==
    IF gap_a > 0 /\ gap_b = 0 THEN MISSING_STEPS
    ELSE IF gap_b > 0 /\ gap_a = 0 THEN EXTRA_STEPS
    ELSE local

\* The result returned for the mismatch at position at.
StatusResult(sa, sb, at, gap_a, gap_b, status, diffs, size) ==
    FirstDivergenceResult(
        status, Some(at), Some(at),
        _make_explanation(status, Some(At(sa, at)), Some(At(sb, at)), Some(at), Some(at),
                          IF status = MISSING_STEPS THEN gap_a ELSE 0,
                          IF status = EXTRA_STEPS THEN gap_b ELSE 0),
        Some(_make_summary(At(sa, at))), Some(_make_summary(At(sb, at))),
        diffs[1], diffs[2], at - 1,
        _get_context(sa, at, size), _get_context(sb, at, size))

LocalResult(sa, sb, at, gap_a, gap_b, local, size, shown) ==
    StatusResult(sa, sb, at, gap_a, gap_b, MismatchStatus(gap_a, gap_b, local),
                 IF MismatchStatus(gap_a, gap_b, local) = local
                     THEN _compute_diffs(Some(At(sa, at)), Some(At(sb, at)), local, shown)
                 ELSE <<None, None>>,
                 size)

ResyncedResult(sa, sb, at, found, size, shown) ==
    LocalResult(sa, sb, at, GapOf(found, at, 1), GapOf(found, at, 2),
                _classify_step_divergence(At(sa, at), At(sb, at)), size, shown)

MismatchResult(sa, sb, at, win, size, shown) ==
    ResyncedResult(sa, sb, at, _try_resync(sa, sb, at, win).found, size, shown)

\* find_first_divergence(run_a, run_b, window=win, context_size=size, show=shown)
\* as a function of its arguments; sa and sb are run_a.steps and run_b.steps.
find_first_divergence(sa, sb, win, size, shown) ==
    IF Mismatches(sa, sb) # {} THEN
        MismatchResult(sa, sb,
                       CHOOSE k \in Mismatches(sa, sb) : \A j \in Mismatches(sa, sb) : k <= j,
                       win, size, shown)
    ELSE IF Len(sa) > Len(sb) THEN
        LET idx == Len(sb)
        IN  FirstDivergenceResult(
                MISSING_STEPS, Some(idx), None,
                _make_explanation(MISSING_STEPS, Some(At(sa, idx)), None, Some(idx), None,
                                  Len(sa) - Len(sb), 0),
                Some(_make_summary(At(sa, idx))), None, None, None, idx - 1,
                _get_context(sa, idx, size),
                IF sb # <<>> THEN _get_context(sb, Len(sb) - 1, size) ELSE <<>>)
    ELSE IF Len(sb) > Len(sa) THEN
        LET idx == Len(sa)
        IN  FirstDivergenceResult(
                EXTRA_STEPS, None, Some(idx),
                _make_explanation(EXTRA_STEPS, None, Some(At(sb, idx)), None, Some(idx),
                                  0, Len(sb) - Len(sa)),
                None, Some(_make_summary(At(sb, idx))), None, None, idx - 1,
                IF sa # <<>> THEN _get_context(sa, Len(sa) - 1, size) ELSE <<>>,
                _get_context(sb, idx, size))
    ELSE FirstDivergenceResult(
             EXACT_MATCH, None, None,
             <<"Runs are identical (">> \o IntChars(Len(sa)) \o <<" steps compared)">>,
             None, None, None, None, Len(sa) - 1, <<>>, <<>>)

\* ------------------------------------------------------------------------
\* Inputs of the diff engine
\* ------------------------------------------------------------------------
MaxSteps == 3
MaxWideSteps == 1
DefaultWindow == 10
DefaultContextSize == 2

\* Run.steps of the run recorded as the table indices ids.
StepsOf(ids) ==
    [k \in 1..Len(ids) |-> Step(k - 1, StepTable[ids[k]].name, StepTable[ids[k]].events)]

\* Runs of up to MaxSteps steps over the first three step bodies, and runs of up
\* to MaxWideSteps steps over all of them.
NarrowKinds == {1, 2, 3}
NarrowRuns == UNION {[1..n -> NarrowKinds] : n \in 0..MaxSteps}
WideRuns == UNION {[1..n -> 1..Len(StepTable)] : n \in 0..MaxWideSteps}

\* The <<window, context_size>> arguments: the defaults, no window at all, and
\* windows and contexts of the size of the runs.
Params == {<<DefaultWindow, DefaultContextSize>>, <<0, DefaultContextSize>>, <<1, 0>>, <<2, 0>>}

\* ------------------------------------------------------------------------
\* find_first_divergence as a state machine
\* ------------------------------------------------------------------------
VARIABLES
    run_a, run_b,       \* the two runs (the table indices of their steps)
    window,             \* resync window
    context_size,       \* steps before and after the divergence in the context
    show,               \* which diffs to include
    pc,                 \* "loop" | "resync" | "done"
    i,                  \* the lockstep cursor
    last_equal,
    dtype,              \* classification at the first mismatch
    resync,             \* result of _try_resync
    result,             \* Optional FirstDivergenceResult
    classified,         \* positions given to _classify_step_divergence
    reads_a, reads_b    \* positions of the steps of each run read so far

diffVars ==
    <<run_a, run_b, window, context_size, show, pc, i, last_equal, dtype, resync, result,
      classified, reads_a, reads_b>>

\* ------------------------------------------------------------------------
\* replay.py: the replay-mode context (determinism guardrails)
\* ------------------------------------------------------------------------
MaxDepth == 2

\* Logical tasks (threads or async tasks), each with its own context; the
\* tasks of a behaviour are the domain of the per-task variables.
MainTask == {"main"}

\* The run_id arguments of replay_mode: None or a run id.
RunIds == {None, Some("run-A"), Some("run-B")}

VARIABLES
    _replay_mode_active,  \* per task: the ContextVar, unset (None) or Some(value)
    _replay_run_id,       \* per task: the ContextVar, unset (None) or Some(value)
    scopes,               \* per task: the open replay_mode scopes, innermost last
    raised,               \* per task: the exception propagating, if any
    guard_log,            \* per task: the last guard_live_call and its outcome
    last_exit             \* per task: how the last scope was left

modeVars == <<_replay_mode_active, _replay_run_id, scopes, raised, guard_log, last_exit>>

\* ReplayEngine.replay: the call in progress.
VARIABLES
    eng_pc,                 \* "idle", "replay", "executor", "compare" or "done"
    eng_run,                \* store.load_run(run_id): None or Some(recorded run)
    eng_policy,             \* the ReplayPolicy argument
    eng_executor,           \* whether an executor was given
    step_idx,               \* position of the loop of _execute_replay
    replayed_step,          \* the step the executor returned, if any
    step_results,           \* list of ReplayStepResult
    total_events_compared,
    replay_result,          \* None, or what replay returned or raised
    executor_calls          \* per executor call: the step and the replay mode it ran in

engineVars ==
    <<eng_pc, eng_run, eng_policy, eng_executor, step_idx, replayed_step, step_results,
      total_events_compared, replay_result, executor_calls>>

\* The logical tasks: per task, how its context came to be.
VARIABLES
    task_origin             \* "main", "thread" (fresh context) or "async" (copied context),
                            \* with the flag and run id the context started with

taskVars == <<task_origin>>

\* ReplayContext: the recorded run it serves and its cursors.
VARIABLES
    ctx_run,                \* self.run.steps
    _step_cursor,
    _event_cursors,         \* dict: step index -> event cursor
    ctx_result,             \* the last call: operation, arguments, outcome
    served                  \* per step index: the events next_event has returned
                            \* since the cursor of the step was fresh or reset

ctxVars == <<ctx_run, _step_cursor, _event_cursors, ctx_result, served>>

\* RedactionPolicy.redact: one call.
VARIABLES
    red_rules,              \* self.rules
    red_event_type,
    red_payload,            \* the payload object of the caller
    red_output              \* None, or Some(the value redact returned)

redVars == <<red_rules, red_event_type, red_payload, red_output>>

\* RunRecorder, SQLiteStore and Tracer: the recording path.
VARIABLES
    policy_arg,             \* the redaction_policy argument of RunRecorder: None or Some(rules)
    redaction_policy,       \* RunRecorder.redaction_policy after __post_init__
    db_events,              \* the events table of the recorder
    store_events,           \* the events table of the SQLiteStore
    store_steps,            \* the steps table of the SQLiteStore
    _active_step_idx,       \* Tracer._active_step_idx
    _next_step_idx,         \* Tracer._next_step_idx
    open_scopes,            \* the StepScope objects entered and not yet left
    calls                   \* the recording calls made so far, with their arguments

recVars ==
    <<policy_arg, redaction_policy, db_events, store_events, store_steps, _active_step_idx,
      _next_step_idx, open_scopes, calls>>

\* One call of a function that keeps no state between calls.
VARIABLES
    call_fn,                \* the function called
    call_args,              \* its arguments
    call_out                \* None, or Some(what the call returned)

callVars == <<call_fn, call_args, call_out>>

\* The variables of the components after the tasks.
laterVars == <<ctxVars, redVars, recVars, callVars>>

\* The variables of the components not named in the tuples below.
restVars == <<taskVars, laterVars>>
nonCtxVars == <<diffVars, modeVars, engineVars, taskVars, redVars, recVars, callVars>>
nonRedVars == <<diffVars, modeVars, engineVars, taskVars, ctxVars, recVars, callVars>>
nonRecVars == <<diffVars, modeVars, engineVars, taskVars, ctxVars, redVars, callVars>>
nonCallVars == <<diffVars, modeVars, engineVars, taskVars, ctxVars, redVars, recVars>>

\* The variables other than those of find_first_divergence, other than those
\* of the replay-mode guardrails, and other than those of ReplayEngine.replay.
nonDiffVars == <<modeVars, engineVars, restVars>>
nonModeVars == <<diffVars, engineVars, restVars>>
nonEngineVars == <<diffVars, modeVars, restVars>>
nonReplayVars == <<diffVars, restVars>>

vars == <<diffVars, modeVars, engineVars, restVars>>

\* ContextVar.get(): the value set in the context, else the default.
ContextVarGet(var, default) == IF var = None THEN default ELSE var[1]

\* ContextVar.set(value): the token keeps the previous state of the variable
\* (None stands for Token.MISSING).
ContextVarToken(var) == var

\* Mutation of ContextVarReset: the variable is cleared instead of restored.
ContextVarReset_Unset(var, token) == None

\* ContextVar.reset(token): back to the state the token keeps.
ContextVarReset(var, token) == token

is_replay_mode_active(t) == ContextVarGet(_replay_mode_active[t], FALSE)

get_replay_run_id(t) ==
    IF is_replay_mode_active(t) THEN ContextVarGet(_replay_run_id[t], None) ELSE None

DeterminismViolationError(operation, run_id) ==
    [type |-> "DeterminismViolationError",
     operation |-> operation,
     run_id |-> run_id,
     step_idx |-> -1,
     violation_type |-> "live_call_during_replay"]

BodyError ==
    [type |-> "Exception", operation |-> "", run_id |-> "", step_idx |-> -1,
     violation_type |-> ""]

\* Mutation of assert_not_in_replay_mode: the test is on the run id, not on
\* the flag.
assert_not_in_replay_mode_ByRunId(t, operation) ==
    IF get_replay_run_id(t) # None
        THEN Some(DeterminismViolationError(operation, get_replay_run_id(t)[1]))
    ELSE None

\* assert_not_in_replay_mode(operation): the exception raised, or None.
assert_not_in_replay_mode(t, operation) ==
    IF is_replay_mode_active(t)
        THEN Some(DeterminismViolationError(
                 operation,
                 IF get_replay_run_id(t) # None THEN get_replay_run_id(t)[1] ELSE "unknown"))
    ELSE None

Depth(t) == Len(scopes[t])
Innermost(t) == scopes[t][Len(scopes[t])]

Tasks == DOMAIN scopes

InitMode(tasks) ==
    /\ task_origin = [t \in tasks |-> [kind |-> "main", active |-> FALSE, run_id |-> None]]
    /\ _replay_mode_active = [t \in tasks |-> None]
    /\ _replay_run_id = [t \in tasks |-> None]
    /\ scopes = [t \in tasks |-> <<>>]
    /\ raised = [t \in tasks |-> None]
    /\ guard_log = [t \in tasks |-> None]
    /\ last_exit = [t \in tasks |-> [kind |-> "none", run_id |-> None]]

\* Mutation of EnterReplayMode: the flag and the run id are module globals,
\* set for every task at once.
EnterReplayMode_Global(t, run_id) ==
    /\ raised[t] = None
    /\ Depth(t) < MaxDepth
    /\ scopes' = [scopes EXCEPT ![t] = Append(@,
            [run_id |-> run_id,
             token_active |-> ContextVarToken(_replay_mode_active[t]),
             token_run_id |-> ContextVarToken(_replay_run_id[t]),
             before_active |-> is_replay_mode_active(t),
             before_run_id |-> get_replay_run_id(t)])]
    /\ _replay_mode_active' = [u \in Tasks |-> Some(TRUE)]
    /\ _replay_run_id' = [u \in Tasks |-> Some(run_id)]
    /\ UNCHANGED <<raised, guard_log, last_exit>>
    /\ UNCHANGED nonModeVars

\* with replay_mode(run_id): the two set() calls before the yield.
EnterReplayMode(t, run_id) ==
    /\ raised[t] = None
    /\ Depth(t) < MaxDepth
    /\ scopes' = [scopes EXCEPT ![t] = Append(@,
            [run_id |-> run_id,
             token_active |-> ContextVarToken(_replay_mode_active[t]),
             token_run_id |-> ContextVarToken(_replay_run_id[t]),
             before_active |-> is_replay_mode_active(t),
             before_run_id |-> get_replay_run_id(t)])]
    /\ _replay_mode_active' = [_replay_mode_active EXCEPT ![t] = Some(TRUE)]
    /\ _replay_run_id' = [_replay_run_id EXCEPT ![t] = Some(run_id)]
    /\ UNCHANGED <<raised, guard_log, last_exit>>
    /\ UNCHANGED nonModeVars

\* The finally block of replay_mode: both variables are reset from the tokens.
LeaveReplayMode(t, kind) ==
    /\ Depth(t) > 0
    /\ _replay_mode_active' = [_replay_mode_active EXCEPT ![t] =
            ContextVarReset(@, Innermost(t).token_active)]
    /\ _replay_run_id' = [_replay_run_id EXCEPT ![t] =
            ContextVarReset(@, Innermost(t).token_run_id)]
    /\ scopes' = [scopes EXCEPT ![t] = SubSeq(@, 1, Len(@) - 1)]
    /\ last_exit' = [last_exit EXCEPT ![t] = [kind |-> kind, run_id |-> Innermost(t).run_id]]
    /\ UNCHANGED <<raised, guard_log>>
    /\ UNCHANGED nonModeVars

\* The body of the innermost scope ends normally.
ExitNormal(t) ==
    /\ raised[t] = None
    /\ LeaveReplayMode(t, "normal")

\* An exception leaves the innermost scope and keeps propagating.
ExitException(t) ==
    /\ raised[t] # None
    /\ LeaveReplayMode(t, "exception")

\* guard_live_call(operation), an alias of assert_not_in_replay_mode.
GuardLiveCall(t, operation) ==
    /\ raised[t] = None
    /\ LET exc == assert_not_in_replay_mode(t, operation)
       IN  /\ raised' = [raised EXCEPT ![t] = exc]
           /\ guard_log' = [guard_log EXCEPT ![t] =
                   Some([depth |-> Depth(t), exception |-> exc])]
    /\ UNCHANGED <<_replay_mode_active, _replay_run_id, scopes, last_exit>>
    /\ UNCHANGED nonModeVars

\* The body of a scope raises an exception of its own.
BodyRaise(t) ==
    /\ raised[t] = None
    /\ Depth(t) > 0
    /\ raised' = [raised EXCEPT ![t] = Some(BodyError)]
    /\ UNCHANGED <<_replay_mode_active, _replay_run_id, scopes, guard_log, last_exit>>
    /\ UNCHANGED nonModeVars

\* A handler around the current position catches the exception.
Catch(t) ==
    /\ raised[t] # None
    /\ raised' = [raised EXCEPT ![t] = None]
    /\ UNCHANGED <<_replay_mode_active, _replay_run_id, scopes, guard_log, last_exit>>
    /\ UNCHANGED nonModeVars

NextMode ==
    \/ \E t \in Tasks : \E run_id \in RunIds : EnterReplayMode(t, run_id)
    \/ \E t \in Tasks : ExitNormal(t)
    \/ \E t \in Tasks : ExitException(t)
    \/ \E t \in Tasks : GuardLiveCall(t, "tool")
    \/ \E t \in Tasks : BodyRaise(t)
    \/ \E t \in Tasks : Catch(t)

\* ------------------------------------------------------------------------
\* replay.py: the two ContextVars under concurrent tasks
\* ------------------------------------------------------------------------

\* Largest nesting of scopes per task when two tasks run.
MaxTaskDepth == 1

TaskNames == {"main", "worker"}

\* Each task replays a run of its own.
TaskRunId(t) == IF t = "main" THEN Some("run-A") ELSE Some("run-B")

\* A per-task variable extended with the entry of a new task.
WithTask(f, u, value) == [t \in DOMAIN f \cup {u} |-> IF t = u THEN value ELSE f[t]]

\* Task t starts task u, whose context holds the given states of the two
\* ContextVars.
StartTask(t, u, kind, var_active, var_run_id) ==
    /\ raised[t] = None
    /\ u \notin Tasks
    /\ _replay_mode_active' = WithTask(_replay_mode_active, u, var_active)
    /\ _replay_run_id' = WithTask(_replay_run_id, u, var_run_id)
    /\ scopes' = WithTask(scopes, u, <<>>)
    /\ raised' = WithTask(raised, u, None)
    /\ guard_log' = WithTask(guard_log, u, None)
    /\ last_exit' = WithTask(last_exit, u, [kind |-> "none", run_id |-> None])
    /\ task_origin' = WithTask(task_origin, u,
            [kind |-> kind,
             active |-> ContextVarGet(var_active, FALSE),
             run_id |-> IF ContextVarGet(var_active, FALSE)
                            THEN ContextVarGet(var_run_id, None) ELSE None])
    /\ UNCHANGED <<diffVars, engineVars, laterVars>>

\* threading.Thread(...).start(): the thread runs in a new, empty context, in
\* which both ContextVars have their defaults.
CreateThread(t, u) == StartTask(t, u, "thread", None, None)

\* asyncio.create_task(...): the task runs in a copy of the context of its
\* creator.
CreateAsyncTask(t, u) ==
    StartTask(t, u, "async", _replay_mode_active[t], _replay_run_id[t])

\* with replay_mode(run_id) in task t, for the run of that task.
TaskEnter(t) ==
    /\ Depth(t) < MaxTaskDepth
    /\ EnterReplayMode(t, TaskRunId(t))

NextTasks ==
    \/ \E t \in Tasks : \E u \in TaskNames : CreateThread(t, u)
    \/ \E t \in Tasks : \E u \in TaskNames : CreateAsyncTask(t, u)
    \/ \E t \in Tasks : TaskEnter(t)
    \/ \E t \in Tasks : ExitNormal(t)
    \/ \E t \in Tasks : ExitException(t)
    \/ \E t \in Tasks : GuardLiveCall(t, "tool")
    \/ \E t \in Tasks : BodyRaise(t)
    \/ \E t \in Tasks : Catch(t)

\* ------------------------------------------------------------------------
\* replay.py: deep_compare, compare_events, compare_steps
\* ------------------------------------------------------------------------
FieldDiff(path, expected, actual) == [path |-> path, expected |-> expected, actual |-> actual]

\* type(value).__name__
TypeName(v) ==
    CASE v.kind = "null" -> "NoneType"
      [] OTHER -> v.kind

\* f"type:{type(value).__name__}", a str
TypeTag(v) == VStr(<<"type:", TypeName(v)>>)

\* The str "<missing>"
MissingTag == VStr(<<"<missing>">>)

RootPath(path) == IF path # <<>> THEN path ELSE <<"(root)">>
ChildKeyPath(path, key) == IF path # <<>> THEN path \o <<".">> \o key ELSE key
LengthPath(path) == IF path # <<>> THEN path \o <<".(length)">> ELSE <<"(length)">>

RECURSIVE deep_compare(_, _, _, _)
deep_compare(expected, actual, path, ignore_fields) ==
    IF expected.kind # actual.kind
        THEN <<FieldDiff(RootPath(path), TypeTag(expected), TypeTag(actual))>>
    ELSE IF expected.kind = "dict" THEN
        LET all_keys == SortedKeys((Keys(expected.items) \cup Keys(actual.items))
                                   \ ignore_fields)
        IN  Concat([k \in 1..Len(all_keys) |->
                LET key == all_keys[k]
                    child_path == ChildKeyPath(path, key)
                IN  IF key \notin Keys(expected.items)
                        THEN <<FieldDiff(child_path, MissingTag, DictGet(actual.items, key))>>
                    ELSE IF key \notin Keys(actual.items)
                        THEN <<FieldDiff(child_path, DictGet(expected.items, key), MissingTag)>>
                    ELSE deep_compare(DictGet(expected.items, key),
                                      DictGet(actual.items, key), child_path, ignore_fields)])
    ELSE IF expected.kind = "list" THEN
        (IF Len(expected.items) # Len(actual.items)
             THEN <<FieldDiff(LengthPath(path), VInt(Len(expected.items)),
                              VInt(Len(actual.items)))>>
         ELSE <<>>)
        \o Concat([k \in 1..Min(Len(expected.items), Len(actual.items)) |->
                deep_compare(expected.items[k], actual.items[k],
                             IndexPath(path, k - 1), ignore_fields)])
    ELSE IF ~PyEq(expected, actual)
        THEN <<FieldDiff(RootPath(path), expected, actual)>>
    ELSE <<>>

\* The payload keys compare_events ignores when ignore_timestamps is set.
TimestampFields ==
    { <<"c", "r", "e", "a", "t", "e", "d", "_", "a", "t">>,
      <<"t", "s">>,
      <<"t", "i", "m", "e", "s", "t", "a", "m", "p">> }

\* Mutation of compare_events: Event.created_at is compared too.
compare_events_CreatedAt(expected, actual, ignore_timestamps) ==
    (IF expected.type # actual.type
         THEN <<FieldDiff(<<"type">>, VStr(TypeChars(expected.type)),
                          VStr(TypeChars(actual.type)))>>
     ELSE <<>>)
    \o (IF expected.created_at # actual.created_at
            THEN <<FieldDiff(<<"created_at">>, VStr(<<expected.created_at>>),
                             VStr(<<actual.created_at>>))>>
        ELSE <<>>)
    \o deep_compare(expected.payload, actual.payload, <<"payload">>,
                    IF ignore_timestamps THEN TimestampFields ELSE {})

compare_events(expected, actual, ignore_timestamps) ==
    (IF expected.type # actual.type
         THEN <<FieldDiff(<<"type">>, VStr(TypeChars(expected.type)),
                          VStr(TypeChars(actual.type)))>>
     ELSE <<>>)
    \o deep_compare(expected.payload, actual.payload, <<"payload">>,
                    IF ignore_timestamps THEN TimestampFields ELSE {})

DivergencePoint(idx, step_name, event_idx, divergence_type, field_diffs) ==
    [step_idx |-> idx, step_name |-> step_name, event_idx |-> event_idx,
     divergence_type |-> divergence_type, field_diffs |-> field_diffs]

\* Mutation of compare_steps: the last differing event pair is reported.
compare_steps_LastEvent(expected, actual, ignore_timestamps) ==
    IF expected.name # actual.name
        THEN <<FALSE, Some(DivergencePoint(
                 expected.idx, expected.name, None, "step_name_mismatch",
                 <<FieldDiff(<<"name">>, VStr(<<expected.name>>), VStr(<<actual.name>>))>>))>>
    ELSE IF Len(expected.events) # Len(actual.events)
        THEN <<FALSE, Some(DivergencePoint(
                 expected.idx, expected.name, None, "event_count_mismatch",
                 <<FieldDiff(<<"events.(length)">>, VInt(Len(expected.events)),
                             VInt(Len(actual.events)))>>))>>
    ELSE LET differing == {k \in 0..(Len(expected.events) - 1) :
                              compare_events(expected.events[k + 1], actual.events[k + 1],
                                             ignore_timestamps) # <<>>}
         IN  IF differing # {}
                 THEN LET event_idx == CHOOSE k \in differing : \A j \in differing : k >= j
                      IN  <<FALSE, Some(DivergencePoint(
                              expected.idx, expected.name, Some(event_idx),
                              "event_payload_mismatch",
                              compare_events(expected.events[event_idx + 1],
                                             actual.events[event_idx + 1],
                                             ignore_timestamps)))>>
             ELSE <<TRUE, None>>

\* The event positions (0-based) at which compare_events reports differences.
DifferingEvents(expected, actual, ignore_timestamps) ==
    {k \in 0..(Min(Len(expected.events), Len(actual.events)) - 1) :
        compare_events(expected.events[k + 1], actual.events[k + 1], ignore_timestamps)
            # <<>>}

\* compare_steps: <<matched, divergence>>
compare_steps(expected, actual, ignore_timestamps) ==
    IF expected.name # actual.name
        THEN <<FALSE, Some(DivergencePoint(
                 expected.idx, expected.name, None, "step_name_mismatch",
                 <<FieldDiff(<<"name">>, VStr(<<expected.name>>), VStr(<<actual.name>>))>>))>>
    ELSE IF Len(expected.events) # Len(actual.events)
        THEN <<FALSE, Some(DivergencePoint(
                 expected.idx, expected.name, None, "event_count_mismatch",
                 <<FieldDiff(<<"events.(length)">>, VInt(Len(expected.events)),
                             VInt(Len(actual.events)))>>))>>
    ELSE LET differing == DifferingEvents(expected, actual, ignore_timestamps)
         IN  IF differing # {}
                 THEN LET event_idx == CHOOSE k \in differing : \A j \in differing : k <= j
                      IN  <<FALSE, Some(DivergencePoint(
                              expected.idx, expected.name, Some(event_idx),
                              "event_payload_mismatch",
                              compare_events(expected.events[event_idx + 1],
                                             actual.events[event_idx + 1],
                                             ignore_timestamps)))>>
             ELSE <<TRUE, None>>

\* ------------------------------------------------------------------------
\* replay.py: ReplayPolicy, ReplayResult, ReplayEngine.replay
\* ------------------------------------------------------------------------
ReplayPolicy(ignore_timestamps, strict_event_order, fail_on_missing_artifact, compare_tool_outputs, compare_llm_outputs) ==
    [ignore_timestamps |-> ignore_timestamps,
     strict_event_order |-> strict_event_order,
     fail_on_missing_artifact |-> fail_on_missing_artifact,
     compare_tool_outputs |-> compare_tool_outputs,
     compare_llm_outputs |-> compare_llm_outputs]

PolicyDefault == ReplayPolicy(TRUE, TRUE, TRUE, TRUE, TRUE)
PolicyStrict == ReplayPolicy(FALSE, TRUE, TRUE, TRUE, TRUE)
PolicyLenient == ReplayPolicy(TRUE, TRUE, FALSE, TRUE, TRUE)
Policies == {PolicyDefault, PolicyStrict, PolicyLenient}

STATUS_MATCH == "match"
STATUS_DIVERGED == "diverged"
STATUS_INCOMPLETE == "incomplete"
STATUS_ERROR == "error"

ReplayStepResult(idx, step_name, events_compared, matched, divergence) ==
    [step_idx |-> idx, step_name |-> step_name, events_compared |-> events_compared,
     matched |-> matched, divergence |-> divergence]

ReplayResult(original_run_id, replay_run_id, status, steps_compared, total_events, divergence, results, error_message) ==
    [original_run_id |-> original_run_id, replay_run_id |-> replay_run_id,
     status |-> status, steps_compared |-> steps_compared,
     total_events_compared |-> total_events, divergence |-> divergence,
     step_results |-> results, error_message |-> error_message]

MissingArtifactError(run_id, idx, event_idx, artifact_type) ==
    [type |-> "MissingArtifactError", run_id |-> run_id, step_idx |-> idx,
     event_idx |-> event_idx, artifact_type |-> artifact_type]

\* What a call ends with: a returned value or a raised exception.
Returned(value) == [kind |-> "returned", value |-> value]
Raised(exception) == [kind |-> "raised", value |-> exception]

\* The id of the recorded run, and f"replay-{uuid.uuid4().hex[:8]}".
EngineRunId == "run-A"
NewReplayRunId == "replay-uuid"

ResultKey == <<"r", "e", "s", "u", "l", "t">>

\* The events of the given types, in order.
EventsOfTypes(events, types) == SelectSeq(events, LAMBDA e : e.type \in types)

\* The positions (0-based) in events at which bad(event) holds.
BadPositions(events, bad(_)) == {k \in 0..(Len(events) - 1) : bad(events[k + 1])}

LeastOf(positions) == CHOOSE k \in positions : \A j \in positions : k <= j

\* Mutation of ValidateStep: only a step without events is reported.
ValidateStep_EventsOnly(idx, step, policy) ==
    IF step.events = <<>> /\ policy.fail_on_missing_artifact
        THEN Some(MissingArtifactError(EngineRunId, Some(idx), None, "events"))
    ELSE None

\* One iteration of the loop of _validate_recorded_run: the exception it
\* raises for the step at idx, or None.
ValidateStep(idx, step, policy) ==
    LET tool_events == EventsOfTypes(step.events, {"tool_call"})
        llm_events == EventsOfTypes(step.events, {"llm_call", "output"})
        bad_tool == BadPositions(tool_events,
                                 LAMBDA e : ResultKey \notin Keys(e.payload.items))
        bad_llm == BadPositions(llm_events, LAMBDA e : e.payload.items = <<>>)
    IN  IF step.events = <<>> /\ policy.fail_on_missing_artifact
            THEN Some(MissingArtifactError(EngineRunId, Some(idx), None, "events"))
        ELSE IF /\ policy.compare_tool_outputs
                /\ policy.fail_on_missing_artifact
                /\ bad_tool # {}
            THEN Some(MissingArtifactError(EngineRunId, Some(idx), Some(LeastOf(bad_tool)),
                                           "tool_result"))
        ELSE IF /\ policy.compare_llm_outputs
                /\ policy.fail_on_missing_artifact
                /\ bad_llm # {}
            THEN Some(MissingArtifactError(EngineRunId, Some(idx), Some(LeastOf(bad_llm)),
                                           "llm_output"))
        ELSE None

RECURSIVE SumEvents(_)
SumEvents(steps) == IF steps = <<>> THEN 0 ELSE Len(Head(steps).events) + SumEvents(Tail(steps))

_validate_recorded_run(steps, policy) ==
    LET failing == {k \in 0..(Len(steps) - 1) : ValidateStep(k, At(steps, k), policy) # None}
    IN  IF failing # {}
            THEN Raised(ValidateStep(LeastOf(failing), At(steps, LeastOf(failing)), policy)[1])
        ELSE Returned(ReplayResult(
                 EngineRunId, EngineRunId, STATUS_MATCH, Len(steps), SumEvents(steps), None,
                 [k \in 1..Len(steps) |->
                     ReplayStepResult(k - 1, steps[k].name, Len(steps[k].events), TRUE, None)],
                 None))

\* The status _compare_loaded_runs returns when every compared step matched.
AllMatchedStatus_Match(original_step_count, replay_step_count) == STATUS_MATCH

AllMatchedStatus(original_step_count, replay_step_count) ==
    IF replay_step_count < original_step_count THEN STATUS_INCOMPLETE ELSE STATUS_MATCH

\* A loaded run: Run.run_id and Run.steps.
Run(run_id, steps) == [run_id |-> run_id, steps |-> steps]

\* ReplayEngine._compare_loaded_runs(original, replay, ignore_timestamps)
_compare_loaded_runs(original, replay, ignore_timestamps) ==
    LET original_step_count == Len(original.steps)
        replay_step_count == Len(replay.steps)
        zipped == Min(original_step_count, replay_step_count)
        compared == [k \in 1..zipped |->
                        compare_steps(original.steps[k], replay.steps[k], ignore_timestamps)]
        unmatched == {k \in 1..zipped : ~compared[k][1]}
        \* the iterations the loop runs: up to and including the first mismatch
        last == IF unmatched = {} THEN zipped ELSE LeastOf(unmatched)
        results == [k \in 1..last |->
                       ReplayStepResult(k - 1, original.steps[k].name,
                                        Min(Len(original.steps[k].events),
                                            Len(replay.steps[k].events)),
                                        compared[k][1], compared[k][2])]
        matched_events == SumEvents(SubSeq(original.steps, 1,
                                           IF unmatched = {} THEN last ELSE last - 1))
    IN  IF replay_step_count > original_step_count
            THEN ReplayResult(original.run_id, replay.run_id, STATUS_DIVERGED, 0, 0,
                     Some(DivergencePoint(original_step_count, "<beyond original>", None,
                              "extra_steps_in_replay",
                              <<FieldDiff(<<"steps.(length)">>, VInt(original_step_count),
                                          VInt(replay_step_count))>>)),
                     <<>>, None)
        ELSE IF unmatched # {}
            THEN LET divergence == compared[last][2]
                 IN  ReplayResult(original.run_id, replay.run_id, STATUS_DIVERGED, last,
                         IF divergence[1].event_idx # None
                             THEN matched_events + divergence[1].event_idx[1]
                         ELSE matched_events,
                         divergence, results, None)
        ELSE ReplayResult(original.run_id, replay.run_id,
                 AllMatchedStatus(original_step_count, replay_step_count),
                 IF replay_step_count < original_step_count THEN replay_step_count
                 ELSE Len(results),
                 matched_events, None, results, None)

compare_loaded_runs(original, replay, ignore_timestamps) ==
    _compare_loaded_runs(original, replay, ignore_timestamps)

\* str(e) of the exceptions of the model.
ExceptionText(e) ==
    IF e.type = "DeterminismViolationError"
        THEN <<"DeterminismViolationError at step ">> \o IntChars(e.step_idx)
             \o <<" [", e.violation_type, "]: Live ", e.operation,
                  " attempted during replay of run '", e.run_id, "'. ",
                  "Replay mode forbids live calls to ensure determinism. ",
                  "Use recorded artifacts instead.">>
    ELSE <<"executor error">>

MaxReplaySteps == 2
ReplayKinds == {1, 2, 3, 8}
RecordedRuns == UNION {[1..n -> ReplayKinds] : n \in 0..MaxReplaySteps}

\* Step bodies with and without the artifacts _validate_recorded_run asks for:
\* a step without events, a tool call with its result, a model call with an
\* empty payload, and a step with an empty output and a tool call without
\* result.
PayloadResult == VDict(<< << <<"n", "a", "m", "e">>, VStr(<<"f">>) >>, << ResultKey, VInt(1) >> >>)
ArtifactBodies ==
    << [name |-> "noop", events |-> <<>>],
       [name |-> "tool", events |-> <<Event("input", PayloadA), Event("tool_call", PayloadResult)>>],
       [name |-> "llm", events |-> <<Event("input", PayloadA), Event("llm_call", VDict(<<>>))>>],
       [name |-> "both", events |-> <<Event("output", VDict(<<>>)), Event("input", PayloadA),
                                      Event("tool_call", PayloadA)>>] >>

\* The bodies a recorded run of the engine is made of, and the runs replayed
\* without an executor.
ReplayTable == StepTable \o ArtifactBodies
ArtifactKinds == {1, 8} \cup (Len(StepTable) + 1)..Len(ReplayTable)
ArtifactRuns == UNION {[1..n -> ArtifactKinds] : n \in 0..MaxReplaySteps}

\* recorded_run.steps
recorded_steps ==
    [k \in 1..Len(eng_run[1]) |->
        Step(k - 1, ReplayTable[eng_run[1][k]].name, ReplayTable[eng_run[1][k]].events)]

InitEngine ==
    /\ eng_pc = "idle"
    /\ eng_policy \in Policies
    /\ eng_executor \in BOOLEAN
    /\ eng_run \in {None} \cup {Some(r) : r \in IF eng_executor THEN RecordedRuns
                                                 ELSE RecordedRuns \cup ArtifactRuns}
    /\ step_idx = 0
    /\ replayed_step = None
    /\ step_results = <<>>
    /\ total_events_compared = 0
    /\ replay_result = None
    /\ executor_calls = <<>>

\* No replay in progress.
InitIdleEngine ==
    /\ eng_pc = "idle"
    /\ eng_run = None
    /\ eng_policy = PolicyDefault
    /\ eng_executor = FALSE
    /\ step_idx = 0
    /\ replayed_step = None
    /\ step_results = <<>>
    /\ total_events_compared = 0
    /\ replay_result = None
    /\ executor_calls = <<>>

EngineReturn(outcome) ==
    /\ replay_result' = Some(outcome)
    /\ eng_pc' = "done"

\* ReplayEngine.replay up to the call of _execute_replay.
Replay(t) ==
    /\ eng_pc = "idle"
    /\ replay_result = None
    /\ raised[t] = None
    /\ IF eng_run = None
           THEN EngineReturn(Raised(MissingArtifactError(EngineRunId, None, None, "run")))
       ELSE IF recorded_steps = <<>>
           THEN IF eng_policy.fail_on_missing_artifact
                    THEN EngineReturn(Raised(
                             MissingArtifactError(EngineRunId, None, None, "steps")))
                ELSE EngineReturn(Returned(ReplayResult(
                         EngineRunId, EngineRunId, STATUS_MATCH, 0, 0, None, <<>>, None)))
       ELSE IF ~eng_executor
           THEN EngineReturn(_validate_recorded_run(recorded_steps, eng_policy))
       ELSE /\ eng_pc' = "replay"
            /\ UNCHANGED replay_result
    /\ UNCHANGED <<eng_run, eng_policy, eng_executor, step_idx, replayed_step, step_results,
                   total_events_compared, executor_calls>>
    /\ UNCHANGED nonEngineVars

\* _execute_replay: the loop reaches a recorded step and calls the executor.
CallExecutor(t) ==
    /\ eng_pc = "replay"
    /\ step_idx < Len(recorded_steps)
    /\ eng_pc' = "executor"
    /\ executor_calls' = Append(executor_calls,
            [step_idx |-> step_idx,
             active |-> is_replay_mode_active(t),
             run_id |-> get_replay_run_id(t)])
    /\ UNCHANGED <<eng_run, eng_policy, eng_executor, step_idx, replayed_step, step_results,
                   total_events_compared, replay_result>>
    /\ UNCHANGED nonEngineVars

\* The executor makes a guarded live call.
ExecutorGuard(t) ==
    /\ eng_pc = "executor"
    /\ GuardLiveCall(t, "tool")

\* The executor returns a step.
ExecutorReturn(t, kind) ==
    /\ eng_pc = "executor"
    /\ raised[t] = None
    /\ replayed_step' = Some(kind)
    /\ eng_pc' = "compare"
    /\ UNCHANGED <<eng_run, eng_policy, eng_executor, step_idx, step_results,
                   total_events_compared, replay_result, executor_calls>>
    /\ UNCHANGED nonEngineVars

\* The executor raises an exception of its own.
ExecutorRaise(t) ==
    /\ eng_pc = "executor"
    /\ raised[t] = None
    /\ raised' = [raised EXCEPT ![t] = Some(BodyError)]
    /\ UNCHANGED <<_replay_mode_active, _replay_run_id, scopes, guard_log, last_exit>>
    /\ UNCHANGED nonModeVars

\* Mutation of CatchExecutorError: the exception of the executor leaves replay.
CatchExecutorError_Propagate(t) ==
    /\ eng_pc = "executor"
    /\ raised[t] # None
    /\ EngineReturn(Raised(raised[t][1]))
    /\ raised' = [raised EXCEPT ![t] = None]
    /\ UNCHANGED <<eng_run, eng_policy, eng_executor, step_idx, replayed_step, step_results,
                   total_events_compared, executor_calls>>
    /\ UNCHANGED <<_replay_mode_active, _replay_run_id, scopes, guard_log, last_exit>>
    /\ UNCHANGED nonReplayVars

\* _execute_replay: except Exception around the executor call.
CatchExecutorError(t) ==
    /\ eng_pc = "executor"
    /\ raised[t] # None
    /\ EngineReturn(Returned(ReplayResult(
           EngineRunId, NewReplayRunId, STATUS_ERROR, step_idx, total_events_compared,
           None, step_results,
           Some(<<"Executor failed at step ">> \o IntChars(step_idx) \o <<": ">>
                \o ExceptionText(raised[t][1])))))
    /\ raised' = [raised EXCEPT ![t] = None]
    /\ UNCHANGED <<eng_run, eng_policy, eng_executor, step_idx, replayed_step, step_results,
                   total_events_compared, executor_calls>>
    /\ UNCHANGED <<_replay_mode_active, _replay_run_id, scopes, guard_log, last_exit>>
    /\ UNCHANGED nonReplayVars

\* _execute_replay: the returned step is compared with the recorded one.
CompareStep(t) ==
    /\ eng_pc = "compare"
    /\ LET recorded_step == At(recorded_steps, step_idx)
           returned_step == Step(step_idx, StepTable[replayed_step[1]].name,
                                 StepTable[replayed_step[1]].events)
           compared == compare_steps(recorded_step, returned_step,
                                     eng_policy.ignore_timestamps)
           matched == compared[1]
           divergence == compared[2]
           events_in_step == Min(Len(recorded_step.events), Len(returned_step.events))
           results == Append(step_results,
                             ReplayStepResult(step_idx, recorded_step.name, events_in_step,
                                              matched, divergence))
       IN  /\ step_results' = results
           /\ IF matched
                  THEN /\ total_events_compared'
                            = total_events_compared + Len(recorded_step.events)
                       /\ step_idx' = step_idx + 1
                       /\ eng_pc' = "replay"
                       /\ UNCHANGED replay_result
              ELSE LET total == IF divergence # None /\ divergence[1].event_idx # None
                                    THEN total_events_compared + divergence[1].event_idx[1]
                                ELSE total_events_compared
                   IN  /\ total_events_compared' = total
                       /\ EngineReturn(Returned(ReplayResult(
                              EngineRunId, NewReplayRunId, STATUS_DIVERGED, step_idx + 1,
                              total, divergence, results, None)))
                       /\ UNCHANGED step_idx
    /\ replayed_step' = None
    /\ UNCHANGED <<eng_run, eng_policy, eng_executor, executor_calls>>
    /\ UNCHANGED nonEngineVars

\* Mutation of ReturnReplayMatch: the loop may end before the last step.
ReturnReplayMatch_Early(t) ==
    /\ eng_pc = "replay"
    /\ EngineReturn(Returned(ReplayResult(
           EngineRunId, NewReplayRunId, STATUS_MATCH, Len(step_results),
           total_events_compared, None, step_results, None)))
    /\ UNCHANGED <<eng_run, eng_policy, eng_executor, step_idx, replayed_step, step_results,
                   total_events_compared, executor_calls>>
    /\ UNCHANGED nonEngineVars

\* _execute_replay: all steps matched.
ReturnReplayMatch(t) ==
    /\ eng_pc = "replay"
    /\ step_idx >= Len(recorded_steps)
    /\ EngineReturn(Returned(ReplayResult(
           EngineRunId, NewReplayRunId, STATUS_MATCH, Len(step_results),
           total_events_compared, None, step_results, None)))
    /\ UNCHANGED <<eng_run, eng_policy, eng_executor, step_idx, replayed_step, step_results,
                   total_events_compared, executor_calls>>
    /\ UNCHANGED nonEngineVars

\* The caller of replay opens a replay_mode scope of its own first.
CallerEnters(t, run_id) ==
    /\ eng_pc = "idle"
    /\ Depth(t) = 0
    /\ EnterReplayMode(t, run_id)

NextEngine ==
    \/ \E t \in Tasks : \E run_id \in RunIds : CallerEnters(t, run_id)
    \/ \E t \in Tasks : Replay(t)
    \/ \E t \in Tasks : CallExecutor(t)
    \/ \E t \in Tasks : ExecutorGuard(t)
    \/ \E t \in Tasks : \E kind \in ReplayKinds : ExecutorReturn(t, kind)
    \/ \E t \in Tasks : ExecutorRaise(t)
    \/ \E t \in Tasks : CatchExecutorError(t)
    \/ \E t \in Tasks : CompareStep(t)
    \/ \E t \in Tasks : ReturnReplayMatch(t)

\* ------------------------------------------------------------------------
\* replay.py: ReplayContext
\* ------------------------------------------------------------------------

\* Largest number of steps of the run a ReplayContext serves.
MaxContextSteps == 2

\* The step bodies of those runs: three events of three types, and no event.
ContextBodies == <<StepTable[8], [name |-> "noop", events |-> <<>>]>>

ContextRuns == UNION {[1..n -> 1..Len(ContextBodies)] : n \in 0..MaxContextSteps}

ContextStepsOf(ids) ==
    [k \in 1..Len(ids) |-> Step(k - 1, ContextBodies[ids[k]].name, ContextBodies[ids[k]].events)]

\* dict.get(key, default) and d[key] = value.
CursorGet(d, key, default) == IF key \in DOMAIN d THEN d[key] ELSE default
CursorSet(d, key, value) == [x \in DOMAIN d \cup {key} |-> IF x = key THEN value ELSE d[x]]
NoCursors == [x \in {} |-> 0]

get_step(steps, idx) ==
    IF idx < 0 \/ idx >= Len(steps) THEN None ELSE Some(steps[idx + 1])

get_step_by_name(steps, name) ==
    LET hits == {k \in 1..Len(steps) : steps[k].name = name}
    IN  IF hits = {} THEN None ELSE Some(steps[LeastOf(hits)])

get_event(steps, idx, event_idx) ==
    LET step == get_step(steps, idx)
    IN  IF step = None THEN None
        ELSE IF event_idx < 0 \/ event_idx >= Len(step[1].events) THEN None
        ELSE Some(step[1].events[event_idx + 1])

get_events_by_type(steps, idx, event_type) ==
    LET step == get_step(steps, idx)
    IN  IF step = None THEN <<>>
        ELSE SelectSeq(step[1].events, LAMBDA e : e.type = event_type)

\* The events the generator iter_events(step_idx) yields.
iter_events(steps, idx) ==
    LET step == get_step(steps, idx)
    IN  IF step = None THEN <<>> ELSE step[1].events

ReplayOrderError(expected_type, idx, cursor, got) ==
    [type |-> "ReplayOrderError", expected_type |-> expected_type, step_idx |-> idx,
     event_idx |-> cursor, got |-> got]

\* Mutation of SetCursor: the cursor moves two events ahead.
SetCursor_Skip(cursors, idx, cursor) == CursorSet(cursors, idx, cursor + 2)

\* self._event_cursors[step_idx] = cursor + 1
SetCursor(cursors, idx, cursor) == CursorSet(cursors, idx, cursor + 1)

\* Mutation of next_event: the cursor is advanced before the type is checked.
next_event_AdvanceFirst(steps, cursors, idx, expected_type) ==
    LET step == get_step(steps, idx)
        cursor == CursorGet(cursors, idx, 0)
    IN  IF step = None
            THEN [outcome |-> Returned(None), cursors |-> cursors, cursor |-> None]
        ELSE IF cursor >= Len(step[1].events)
            THEN [outcome |-> Returned(None), cursors |-> cursors, cursor |-> Some(cursor)]
        ELSE LET event == step[1].events[cursor + 1]
             IN  IF expected_type # None /\ event.type # expected_type[1]
                     THEN [outcome |-> Raised(ReplayOrderError(expected_type[1], idx,
                                                               cursor, event.type)),
                           cursors |-> SetCursor(cursors, idx, cursor),
                           cursor |-> Some(cursor)]
                 ELSE [outcome |-> Returned(Some(event)),
                       cursors |-> SetCursor(cursors, idx, cursor),
                       cursor |-> Some(cursor)]

\* next_event(step_idx, expected_type): what the call returns or raises, the
\* cursors after it, and the cursor it read (None if it read none).
next_event(steps, cursors, idx, expected_type) ==
    LET step == get_step(steps, idx)
        cursor == CursorGet(cursors, idx, 0)
    IN  IF step = None
            THEN [outcome |-> Returned(None), cursors |-> cursors, cursor |-> None]
        ELSE IF cursor >= Len(step[1].events)
            THEN [outcome |-> Returned(None), cursors |-> cursors, cursor |-> Some(cursor)]
        ELSE LET event == step[1].events[cursor + 1]
             IN  IF expected_type # None /\ event.type # expected_type[1]
                     THEN [outcome |-> Raised(ReplayOrderError(expected_type[1], idx,
                                                               cursor, event.type)),
                           cursors |-> cursors,
                           cursor |-> Some(cursor)]
                 ELSE [outcome |-> Returned(Some(event)),
                       cursors |-> SetCursor(cursors, idx, cursor),
                       cursor |-> Some(cursor)]

peek_event(steps, cursors, idx) ==
    LET step == get_step(steps, idx)
        cursor == CursorGet(cursors, idx, 0)
    IN  IF step = None THEN None
        ELSE IF cursor >= Len(step[1].events) THEN None
        ELSE Some(step[1].events[cursor + 1])

\* Mutation of reset_cursor: every cursor is cleared, whatever the argument.
reset_cursor_Clear(cursors, idx) == NoCursors

\* reset_cursor(step_idx): the cursors after the call.
reset_cursor(cursors, idx) ==
    IF idx # None THEN CursorSet(cursors, idx[1], 0) ELSE NoCursors

\* The arguments of the calls: step indices around those of the run, the event
\* types and step names of the run and one that is not there.
StepIdxArgs == 0..Len(ctx_run)
StepIdxReadArgs == -1..Len(ctx_run)
EventIdxArgs == {-1, 0, 2}
EventTypeArgs == {"input", "output"}
EventTypeReadArgs == {"input", "llm_call"}
StepNameArgs == {"gen", "noop", "absent"}

CtxCall(op, idx, arg, outcome, cursor) ==
    [op |-> op, step_idx |-> idx, arg |-> arg, outcome |-> outcome, cursor |-> cursor]

NoServed == [s \in 0..MaxContextSteps |-> <<>>]

\* ReplayContext(run) for a run of the family.
InitContext ==
    /\ ctx_run \in {ContextStepsOf(ids) : ids \in ContextRuns}
    /\ _step_cursor = 0
    /\ _event_cursors = NoCursors
    /\ ctx_result = CtxCall("__init__", None, None, Returned(None), None)
    /\ served = NoServed

\* No ReplayContext in use.
InitIdleContext ==
    /\ ctx_run = <<>>
    /\ _step_cursor = 0
    /\ _event_cursors = NoCursors
    /\ ctx_result = CtxCall("__init__", None, None, Returned(None), None)
    /\ served = NoServed

\* A call that reads the run and touches no cursor.
CtxRead(op, idx, arg, value) ==
    /\ ctx_result' = CtxCall(op, idx, arg, Returned(value), None)
    /\ UNCHANGED <<ctx_run, _step_cursor, _event_cursors, served>>
    /\ UNCHANGED nonCtxVars

GetStep(idx) == CtxRead("get_step", Some(idx), None, get_step(ctx_run, idx))

GetStepByName(name) ==
    CtxRead("get_step_by_name", None, Some(name), get_step_by_name(ctx_run, name))

GetEvent(idx, event_idx) ==
    CtxRead("get_event", Some(idx), Some(event_idx), get_event(ctx_run, idx, event_idx))

\* Mutation of GetEventsByType: the events of the step are filtered in place.
GetEventsByType_InPlace(idx, event_type) ==
    /\ ctx_result' = CtxCall("get_events_by_type", Some(idx), Some(event_type),
                             Returned(get_events_by_type(ctx_run, idx, event_type)), None)
    /\ ctx_run' = [k \in 1..Len(ctx_run) |->
                      IF k = idx + 1
                          THEN [ctx_run[k] EXCEPT !.events =
                                    get_events_by_type(ctx_run, idx, event_type)]
                      ELSE ctx_run[k]]
    /\ UNCHANGED <<_step_cursor, _event_cursors, served>>
    /\ UNCHANGED nonCtxVars

GetEventsByType(idx, event_type) ==
    CtxRead("get_events_by_type", Some(idx), Some(event_type),
            get_events_by_type(ctx_run, idx, event_type))

IterEvents(idx) == CtxRead("iter_events", Some(idx), None, iter_events(ctx_run, idx))

PeekEvent(idx) ==
    CtxRead("peek_event", Some(idx), None, peek_event(ctx_run, _event_cursors, idx))

NextEvent(idx, expected_type) ==
    LET call == next_event(ctx_run, _event_cursors, idx, expected_type)
    IN  /\ _event_cursors' = call.cursors
        /\ ctx_result' = CtxCall("next_event", Some(idx), expected_type, call.outcome,
                                 call.cursor)
        /\ served' = IF call.outcome.kind = "returned" /\ call.outcome.value # None
                         THEN [served EXCEPT ![idx] = Append(@, call.outcome.value[1])]
                     ELSE served
        /\ UNCHANGED <<ctx_run, _step_cursor>>
        /\ UNCHANGED nonCtxVars

ResetCursor(idx) ==
    /\ _event_cursors' = reset_cursor(_event_cursors, idx)
    /\ _step_cursor' = IF idx # None THEN _step_cursor ELSE 0
    /\ ctx_result' = CtxCall("reset_cursor", idx, None, Returned(None), None)
    /\ served' = IF idx # None THEN [served EXCEPT ![idx[1]] = <<>>] ELSE NoServed
    /\ UNCHANGED ctx_run
    /\ UNCHANGED nonCtxVars

NextContext ==
    \/ \E idx \in StepIdxReadArgs : GetStep(idx)
    \/ \E name \in StepNameArgs : GetStepByName(name)
    \/ \E idx \in StepIdxArgs : \E event_idx \in EventIdxArgs : GetEvent(idx, event_idx)
    \/ \E idx \in StepIdxArgs : \E event_type \in EventTypeReadArgs : GetEventsByType(idx, event_type)
    \/ \E idx \in StepIdxArgs : IterEvents(idx)
    \/ \E idx \in StepIdxArgs : PeekEvent(idx)
    \/ \E idx \in StepIdxArgs : \E t \in {None} \cup {Some(x) : x \in EventTypeArgs} : NextEvent(idx, t)
    \/ \E idx \in {None} \cup {Some(x) : x \in StepIdxArgs} : ResetCursor(idx)

\* The calls that read or move a cursor.
NextCursor ==
    \/ \E idx \in StepIdxArgs : PeekEvent(idx)
    \/ \E idx \in StepIdxArgs : \E t \in {None} \cup {Some(x) : x \in EventTypeArgs} : NextEvent(idx, t)
    \/ \E idx \in {None} \cup {Some(x) : x \in StepIdxArgs} : ResetCursor(idx)

\* ------------------------------------------------------------------------
\* redaction.py
\* ------------------------------------------------------------------------
MASK == "mask"
HASH == "hash"
DROP == "drop"

RedactionRule(action, key_pattern, path_pattern) ==
    [action |-> action, key_pattern |-> key_pattern, path_pattern |-> path_pattern]

\* str.lower() on one character.
LowerChar(c) ==
    CASE c = "A" -> "a"
      [] c = "B" -> "b"
      [] c = "C" -> "c"
      [] c = "D" -> "d"
      [] c = "E" -> "e"
      [] c = "F" -> "f"
      [] c = "G" -> "g"
      [] c = "H" -> "h"
      [] c = "I" -> "i"
      [] c = "J" -> "j"
      [] c = "K" -> "k"
      [] c = "L" -> "l"
      [] c = "M" -> "m"
      [] c = "N" -> "n"
      [] c = "O" -> "o"
      [] c = "P" -> "p"
      [] c = "Q" -> "q"
      [] c = "R" -> "r"
      [] c = "S" -> "s"
      [] c = "T" -> "t"
      [] c = "U" -> "u"
      [] c = "V" -> "v"
      [] c = "W" -> "w"
      [] c = "X" -> "x"
      [] c = "Y" -> "y"
      [] c = "Z" -> "z"
      [] OTHER -> c

Lower(s) == [k \in 1..Len(s) |-> LowerChar(s[k])]

\* p in s, for strings.
IsSubstring(p, s) == \E k \in 0..(Len(s) - Len(p)) : SubSeq(s, k + 1, k + Len(p)) = p

RuleMatches(rule, key, path) ==
    LET key_matches ==
            rule.key_pattern = None \/ IsSubstring(Lower(rule.key_pattern[1]), Lower(key))
        path_matches ==
            rule.path_pattern = None \/ IsSubstring(Lower(rule.path_pattern[1]), Lower(path))
    IN  key_matches /\ path_matches

\* Mutation of _find_matching_rule: the last matching rule is returned.
_find_matching_rule_Last(rules, key, path) ==
    LET hits == {k \in 1..Len(rules) : RuleMatches(rules[k], key, path)}
    IN  IF hits = {} THEN None
        ELSE Some(rules[CHOOSE k \in hits : \A j \in hits : j <= k])

\* _find_matching_rule(key, path): the first rule of the list that matches.
_find_matching_rule(rules, key, path) ==
    LET hits == {k \in 1..Len(rules) : RuleMatches(rules[k], key, path)}
    IN  IF hits = {} THEN None ELSE Some(rules[LeastOf(hits)])

\* repr(value) of the builtin types.
RECURSIVE JoinWith(_, _)
JoinWith(parts, sep) ==
    IF parts = <<>> THEN <<>>
    ELSE IF Len(parts) = 1 THEN parts[1]
    ELSE parts[1] \o sep \o JoinWith(Tail(parts), sep)

ReprStr(s) == <<"'">> \o s \o <<"'">>

RECURSIVE PyRepr(_)
PyRepr(v) ==
    CASE v.kind = "null" -> <<"N", "o", "n", "e">>
      [] v.kind = "bool" -> IF v.b THEN <<"T", "r", "u", "e">> ELSE <<"F", "a", "l", "s", "e">>
      [] v.kind = "int" -> IntChars(v.n)
      [] v.kind = "str" -> ReprStr(v.s)
      [] v.kind = "dict" ->
            <<"{">>
            \o JoinWith([k \in 1..Len(v.items) |->
                            ReprStr(v.items[k][1]) \o <<":", " ">> \o PyRepr(v.items[k][2])],
                        <<",", " ">>)
            \o <<"}">>
      [] v.kind = "list" ->
            <<"[">> \o JoinWith([k \in 1..Len(v.items) |-> PyRepr(v.items[k])], <<",", " ">>)
            \o <<"]">>
      [] v.kind = "tuple" ->
            <<"(">> \o JoinWith([k \in 1..Len(v.items) |-> PyRepr(v.items[k])], <<",", " ">>)
            \o (IF Len(v.items) = 1 THEN <<",">> ELSE <<>>) \o <<")">>
      [] OTHER -> <<"<", v.kind, ">">>

\* _hash_value(value): "hash:" and the SHA-256 of repr(value).
_hash_value(value) == VStr(<<"h", "a", "s", "h", ":">> \o sha256_hex(PyRepr(value)))

REDACTED == VStr(<<"[", "R", "E", "D", "A", "C", "T", "E", "D", "]">>)

\* f"{path}.{key}" if path else key
CurrentPath(path, key) == IF path # <<>> THEN path \o <<".">> \o key ELSE key

RECURSIVE _redact_value(_, _, _)
RECURSIVE _redact_items(_, _, _)

\* Mutation of _redact_items: a mask rule replaces strings only.
_redact_items_MaskStrings(rules, items, path) ==
    IF items = <<>> THEN <<>>
    ELSE LET key == items[1][1]
             value == items[1][2]
             current_path == CurrentPath(path, key)
             matched_rule == _find_matching_rule(rules, key, current_path)
             rest == _redact_items(rules, Tail(items), path)
         IN  IF matched_rule = None
                 THEN << <<key, _redact_value(rules, value, current_path)>> >> \o rest
             ELSE IF matched_rule[1].action = DROP THEN rest
             ELSE IF matched_rule[1].action = MASK
                 THEN << <<key, IF value.kind = "str" THEN REDACTED ELSE value>> >> \o rest
             ELSE IF matched_rule[1].action = HASH
                 THEN << <<key, _hash_value(value)>> >> \o rest
             ELSE rest

\* The loop of _redact_dict over d.items(): the items of the result.
_redact_items(rules, items, path) ==
    IF items = <<>> THEN <<>>
    ELSE LET key == items[1][1]
             value == items[1][2]
             current_path == CurrentPath(path, key)
             matched_rule == _find_matching_rule(rules, key, current_path)
             rest == _redact_items(rules, Tail(items), path)
         IN  IF matched_rule = None
                 THEN << <<key, _redact_value(rules, value, current_path)>> >> \o rest
             ELSE IF matched_rule[1].action = DROP THEN rest
             ELSE IF matched_rule[1].action = MASK THEN << <<key, REDACTED>> >> \o rest
             ELSE IF matched_rule[1].action = HASH
                 THEN << <<key, _hash_value(value)>> >> \o rest
             ELSE rest

_redact_dict(rules, d, path) == VDict(_redact_items(rules, d.items, path))

_redact_list(rules, lst, path) ==
    VList([k \in 1..Len(lst.items) |-> _redact_value(rules, lst.items[k], path)])

_redact_value(rules, value, path) ==
    IF value.kind = "dict" THEN _redact_dict(rules, value, path)
    ELSE IF value.kind = "list" THEN _redact_list(rules, value, path)
    ELSE value

\* copy.deepcopy(payload): every container is built anew, with equal content.
RECURSIVE deepcopy(_)
deepcopy(v) ==
    CASE v.kind = "dict" ->
            VDict([k \in 1..Len(v.items) |-> <<v.items[k][1], deepcopy(v.items[k][2])>>])
      [] v.kind = "list" -> VList([k \in 1..Len(v.items) |-> deepcopy(v.items[k])])
      [] v.kind = "tuple" -> VTuple([k \in 1..Len(v.items) |-> deepcopy(v.items[k])])
      [] OTHER -> v

redact(rules, event_type, payload) == _redact_value(rules, deepcopy(payload), <<>>)

\* create_default_policy(): the SAFE mode rules.
DefaultRules ==
    <<RedactionRule(MASK, Some(<<"k", "e", "y">>), None),
       RedactionRule(MASK, Some(<<"t", "o", "k", "e", "n">>), None),
       RedactionRule(MASK, Some(<<"s", "e", "c", "r", "e", "t">>), None),
       RedactionRule(MASK, Some(<<"p", "a", "s", "s", "w", "o", "r", "d">>), None),
       RedactionRule(MASK, Some(<<"a", "p", "i", "_", "k", "e", "y">>), None),
       RedactionRule(MASK, Some(<<"a", "p", "i", "k", "e", "y">>), None),
       RedactionRule(MASK, Some(<<"a", "u", "t", "h">>), None),
       RedactionRule(MASK, Some(<<"a", "u", "t", "h", "o", "r", "i", "z", "a", "t", "i", "o", "n">>), None),
       RedactionRule(MASK, Some(<<"c", "o", "o", "k", "i", "e">>), None),
       RedactionRule(MASK, Some(<<"s", "e", "t", "-", "c", "o", "o", "k", "i", "e">>), None),
       RedactionRule(MASK, Some(<<"c", "r", "e", "d", "e", "n", "t", "i", "a", "l", "s">>), None),
       RedactionRule(MASK, Some(<<"p", "r", "i", "v", "a", "t", "e", "_", "k", "e", "y">>), None),
       RedactionRule(MASK, Some(<<"p", "r", "i", "v", "a", "t", "e", "k", "e", "y">>), None),
       RedactionRule(MASK, Some(<<"a", "c", "c", "e", "s", "s", "_", "t", "o", "k", "e", "n">>), None),
       RedactionRule(MASK, Some(<<"r", "e", "f", "r", "e", "s", "h", "_", "t", "o", "k", "e", "n">>), None),
       RedactionRule(MASK, Some(<<"s", "e", "s", "s", "i", "o", "n">>), None),
       RedactionRule(MASK, Some(<<"c", "s", "r", "f">>), None)>>

\* Largest number of rules of a policy of the input family.
MaxRules == 2

\* The rules the policies of the input family are made of: two rules on the
\* same keys in different cases, a hash rule, a rule on a path, a rule on a key
\* and a path, and a rule on a path prefix.
RuleTable ==
    <<RedactionRule(MASK, Some(<<"p", "w">>), None),
      RedactionRule(DROP, Some(<<"P", "W">>), None),
      RedactionRule(HASH, Some(<<"p", "w">>), None),
      RedactionRule(HASH, None, Some(<<"a", ".", "p">>)),
      RedactionRule(DROP, Some(<<"i", "d">>), Some(<<"a">>)),
      RedactionRule(MASK, None, Some(<<"b", ".">>))>>

RuleLists ==
    {[k \in 1..Len(ids) |-> RuleTable[ids[k]]] :
        ids \in UNION {[1..n -> 1..Len(RuleTable)] : n \in 0..MaxRules}}
    \cup {DefaultRules}

S1 == VStr(<<"s", "1">>)
S2 == VStr(<<"s", "2">>)
Item(key, value) == <<key, value>>

\* The payloads of the input family: flat, nested in mappings, in lists, in
\* lists of lists and in a tuple, with keys in lower and upper case.
RedactionPayloads ==
    {VDict(<<>>),
     VDict(<<Item(<<"p", "w">>, S1), Item(<<"i", "d">>, VInt(1))>>),
     VDict(<<Item(<<"P", "w">>, S1)>>),
     VDict(<<Item(<<"x", "p", "w">>, S2)>>),
     VDict(<<Item(<<"a">>, VDict(<<Item(<<"p", "w">>, S1), Item(<<"i", "d">>, VInt(1))>>))>>),
     VDict(<<Item(<<"a">>, VList(<<VDict(<<Item(<<"p", "w">>, S1)>>), VDict(<<Item(<<"i", "d">>, VInt(1))>>)>>))>>),
     VDict(<<Item(<<"a">>, VTuple(<<VDict(<<Item(<<"p", "w">>, S1)>>)>>))>>),
     VDict(<<Item(<<"p", "w">>, VDict(<<Item(<<"i", "d">>, VInt(1))>>))>>),
     VDict(<<Item(<<"b">>, VDict(<<Item(<<"a">>, VDict(<<Item(<<"p", "w">>, S1)>>))>>))>>),
     VDict(<<Item(<<"a">>, VList(<<VList(<<VDict(<<Item(<<"p", "w">>, S1)>>)>>), VInt(1), S2>>))>>),
     VDict(<<Item(<<"a", "p", "i", "_", "k", "e", "y">>, S1), Item(<<"u", "r", "l">>, S2), Item(<<"S", "E", "S", "S", "I", "O", "N">>, S1)>>),
     VDict(<<Item(<<"a", "r", "g", "s">>, VDict(<<Item(<<"u", "r", "l">>, S2), Item(<<"a", "p", "i", "_", "k", "e", "y">>, S1)>>)),
             Item(<<"i", "t", "e", "m", "s">>, VTuple(<<VDict(<<Item(<<"p", "a", "s", "s", "w", "o", "r", "d">>, S1)>>)>>))>>)}

InitRedaction ==
    /\ red_rules \in RuleLists
    /\ red_event_type \in {"tool_call"}
    /\ red_payload \in RedactionPayloads
    /\ red_output = None

\* No redaction call.
InitIdleRedaction ==
    /\ red_rules = <<>>
    /\ red_event_type = "tool_call"
    /\ red_payload = VDict(<<>>)
    /\ red_output = None

\* Mutation of Redact: the payload of the caller is rewritten in place.
Redact_InPlace ==
    /\ red_output = None
    /\ red_output' = Some(redact(red_rules, red_event_type, red_payload))
    /\ red_payload' = redact(red_rules, red_event_type, red_payload)
    /\ UNCHANGED <<red_rules, red_event_type>>
    /\ UNCHANGED nonRedVars

\* policy.redact(event_type, payload): the work is done on a deep copy, the
\* payload of the caller is not written.
Redact ==
    /\ red_output = None
    /\ red_output' = Some(redact(red_rules, red_event_type, red_payload))
    /\ UNCHANGED <<red_rules, red_event_type, red_payload>>
    /\ UNCHANGED nonRedVars

NextRedaction == Redact

\* ------------------------------------------------------------------------
\* recorder.py, store.py, tracer.py: the recording path
\* ------------------------------------------------------------------------

\* json.dumps(value, sort_keys=True) of a JSON-serialisable value: keys sorted,
\* tuples written as arrays, the default separators.
RECURSIVE json_dumps(_)
json_dumps(v) ==
    CASE v.kind = "null" -> <<"n", "u", "l", "l">>
      [] v.kind = "bool" -> IF v.b THEN <<"t", "r", "u", "e">> ELSE <<"f", "a", "l", "s", "e">>
      [] v.kind = "int" -> IntChars(v.n)
      [] v.kind = "str" -> QuoteStr(v.s)
      [] v.kind = "dict" ->
            LET sorted == SortItems(v.items)
            IN  <<"{">>
                \o JoinWith([k \in 1..Len(sorted) |->
                                QuoteStr(sorted[k][1]) \o <<":", " ">> \o json_dumps(sorted[k][2])],
                            <<",", " ">>)
                \o <<"}">>
      [] OTHER ->
            <<"[">> \o JoinWith([k \in 1..Len(v.items) |-> json_dumps(v.items[k])], <<",", " ">>)
            \o <<"]">>

\* The value json.loads gives back for the text of a value: arrays are lists,
\* objects have their keys in the order of the text.
RECURSIVE JsonShape(_)
JsonShape(v) ==
    CASE v.kind = "dict" ->
            LET sorted == SortItems(v.items)
            IN  VDict([k \in 1..Len(sorted) |-> <<sorted[k][1], JsonShape(sorted[k][2])>>])
      [] v.kind \in {"list", "tuple"} ->
            VList([k \in 1..Len(v.items) |-> JsonShape(v.items[k])])
      [] OTHER -> v

\* Largest number of recording calls, and of step scopes entered.
MaxEvents == 2
MaxTracerSteps == 2

RecordingRunId == "run-A"

\* The payloads handed to the recording path: keys of the SAFE policy at the
\* top, nested in a mapping and inside a tuple, and payloads without them.
RecordingPayloads ==
    {VDict(<<Item(<<"u", "r", "l">>, S2)>>),
     VDict(<<Item(<<"u", "r", "l">>, S2), Item(<<"a", "p", "i", "_", "k", "e", "y">>, S1), Item(<<"S", "E", "S", "S", "I", "O", "N">>, S1)>>),
     VDict(<<Item(<<"a", "r", "g", "s">>, VDict(<<Item(<<"u", "r", "l">>, S2), Item(<<"a", "p", "i", "_", "k", "e", "y">>, S1)>>)),
             Item(<<"i", "t", "e", "m", "s">>, VTuple(<<VDict(<<Item(<<"p", "a", "s", "s", "w", "o", "r", "d">>, S1)>>)>>))>>)}

\* The payloads handed to the store and to the tracer, which take any mapping.
StorePayloads ==
    {VDict(<<Item(<<"u", "r", "l">>, S2), Item(<<"a", "p", "i", "_", "k", "e", "y">>, S1), Item(<<"S", "E", "S", "S", "I", "O", "N">>, S1)>>)}

\* The redaction_policy arguments of RunRecorder: none, or a policy of one rule.
PolicyArgs == {None, Some(<<RedactionRule(DROP, Some(<<"u", "r", "l">>), None)>>)}

\* The values whose JSON text the model can hold.
JsonValues ==
    {JsonShape(v) : v \in RecordingPayloads}
    \cup {JsonShape(redact(rules, "tool_call", v)) :
            rules \in {DefaultRules} \cup {arg[1] : arg \in PolicyArgs \ {None}},
            v \in RecordingPayloads}

\* json.loads(text), for the texts json_dumps wrote.
JsonLoadsTable == [text \in {json_dumps(v) : v \in JsonValues} |-> CHOOSE v \in JsonValues : json_dumps(v) = text]

json_loads(text) == JsonLoadsTable[text]

\* RunRecorder.__post_init__: the default SAFE policy if none was given.
InitRecording ==
    /\ policy_arg \in PolicyArgs
    /\ redaction_policy = IF policy_arg = None THEN DefaultRules ELSE policy_arg[1]
    /\ db_events = <<>>
    /\ store_events = <<>>
    /\ store_steps = <<>>
    /\ _active_step_idx = None
    /\ _next_step_idx = 0
    /\ open_scopes = <<>>
    /\ calls = <<>>

\* No recording.
InitIdleRecording ==
    /\ policy_arg = None
    /\ redaction_policy = DefaultRules
    /\ db_events = <<>>
    /\ store_events = <<>>
    /\ store_steps = <<>>
    /\ _active_step_idx = None
    /\ _next_step_idx = 0
    /\ open_scopes = <<>>
    /\ calls = <<>>

RecordingCall(via, event_type, payload, payload_after, outcome) ==
    [via |-> via, type |-> event_type, payload |-> payload, payload_after |-> payload_after,
     outcome |-> outcome]

\* Mutation of LogEvent: the payload is persisted as it was given.
LogEvent_Raw(event_type, payload) ==
    /\ Len(calls) < MaxEvents
    /\ db_events' = Append(db_events,
            [event_id |-> Len(db_events) + 1, run_id |-> RecordingRunId, type |-> event_type,
             payload |-> json_dumps(payload)])
    /\ calls' = Append(calls, RecordingCall("log_event", event_type, payload, payload,
                                            Returned(Len(db_events) + 1)))
    /\ UNCHANGED <<policy_arg, redaction_policy, store_events, store_steps, _active_step_idx,
                   _next_step_idx, open_scopes>>
    /\ UNCHANGED nonRecVars

\* RunRecorder.log_event(run_id, event_type, payload)
LogEvent(event_type, payload) ==
    /\ Len(calls) < MaxEvents
    /\ LET redacted_payload == redact(redaction_policy, event_type, payload)
           payload_json == json_dumps(redacted_payload)
       IN  db_events' = Append(db_events,
                [event_id |-> Len(db_events) + 1, run_id |-> RecordingRunId,
                 type |-> event_type, payload |-> payload_json])
    /\ calls' = Append(calls, RecordingCall("log_event", event_type, payload, payload,
                                            Returned(Len(db_events) + 1)))
    /\ UNCHANGED <<policy_arg, redaction_policy, store_events, store_steps, _active_step_idx,
                   _next_step_idx, open_scopes>>
    /\ UNCHANGED nonRecVars

\* RunRecorder.get_events(run_id): the rows in event_id order, payloads parsed.
get_events(run_id) ==
    LET rows == SelectSeq(db_events, LAMBDA row : row.run_id = run_id)
    IN  [k \in 1..Len(rows) |-> [rows[k] EXCEPT !.payload = json_loads(@)]]

\* SQLiteStore.append_event(run_id, step_idx, type, payload_dict): the table
\* after the insert.
append_event(events, run_id, idx, event_type, payload_dict) ==
    Append(events, [event_id |-> Len(events) + 1, run_id |-> run_id, step_idx |-> idx,
                    type |-> event_type, payload_json |-> json_dumps(payload_dict)])

\* A caller appends an event to the store directly.
AppendEvent(idx, event_type, payload) ==
    /\ Len(calls) < MaxEvents
    /\ store_events' = append_event(store_events, RecordingRunId, idx, event_type, payload)
    /\ calls' = Append(calls, RecordingCall("append_event", event_type, payload, payload,
                                            Returned(Len(store_events) + 1)))
    /\ UNCHANGED <<policy_arg, redaction_policy, db_events, store_steps, _active_step_idx,
                   _next_step_idx, open_scopes>>
    /\ UNCHANGED nonRecVars

\* Tracer.record_event(name, payload)
RecordEvent(name, payload) ==
    /\ Len(calls) < MaxEvents
    /\ IF _active_step_idx = None
           THEN /\ calls' = Append(calls, RecordingCall("record_event", name, payload, payload,
                                                        Raised("RuntimeError")))
                /\ UNCHANGED store_events
       ELSE LET payload_dict == IF payload = None \/ payload[1] = VDict(<<>>)
                                    THEN VDict(<<>>) ELSE payload[1]
            IN  /\ store_events' = append_event(store_events, RecordingRunId,
                                                _active_step_idx[1], name, payload_dict)
                /\ calls' = Append(calls, RecordingCall("record_event", name, payload_dict,
                                                        payload_dict,
                                                        Returned(Len(store_events) + 1)))
    /\ UNCHANGED <<policy_arg, redaction_policy, db_events, store_steps, _active_step_idx,
                   _next_step_idx, open_scopes>>
    /\ UNCHANGED nonRecVars

\* StepScope.__enter__ for tracer.step(name)
StepEnter(name) ==
    /\ _next_step_idx < MaxTracerSteps
    /\ open_scopes' = Append(open_scopes,
            [name |-> name, idx |-> _next_step_idx, _previous_step_idx |-> _active_step_idx])
    /\ _next_step_idx' = _next_step_idx + 1
    /\ _active_step_idx' = Some(_next_step_idx)
    /\ store_steps' = Append(store_steps,
            [run_id |-> RecordingRunId, idx |-> _next_step_idx, name |-> name, ended |-> FALSE])
    /\ UNCHANGED <<policy_arg, redaction_policy, db_events, store_events, calls>>
    /\ UNCHANGED nonRecVars

\* Mutation of StepExit: no step is active after the exit.
StepExit_NoRestore ==
    /\ open_scopes # <<>>
    /\ LET scope == open_scopes[Len(open_scopes)]
       IN  /\ store_steps' = [k \in 1..Len(store_steps) |->
                                IF store_steps[k].idx = scope.idx
                                    THEN [store_steps[k] EXCEPT !.ended = TRUE]
                                ELSE store_steps[k]]
           /\ _active_step_idx' = None
    /\ open_scopes' = SubSeq(open_scopes, 1, Len(open_scopes) - 1)
    /\ UNCHANGED <<policy_arg, redaction_policy, db_events, store_events, _next_step_idx, calls>>
    /\ UNCHANGED nonRecVars

\* StepScope.__exit__ of the innermost open scope.
StepExit ==
    /\ open_scopes # <<>>
    /\ LET scope == open_scopes[Len(open_scopes)]
       IN  /\ store_steps' = [k \in 1..Len(store_steps) |->
                                IF store_steps[k].idx = scope.idx
                                    THEN [store_steps[k] EXCEPT !.ended = TRUE]
                                ELSE store_steps[k]]
           /\ _active_step_idx' = scope._previous_step_idx
    /\ open_scopes' = SubSeq(open_scopes, 1, Len(open_scopes) - 1)
    /\ UNCHANGED <<policy_arg, redaction_policy, db_events, store_events, _next_step_idx, calls>>
    /\ UNCHANGED nonRecVars

EventTypes == {"tool_call"}

NextRecording ==
    \/ \E event_type \in EventTypes : \E payload \in RecordingPayloads : LogEvent(event_type, payload)
    \/ \E payload \in StorePayloads : AppendEvent(0, "tool_call", payload)
    \/ \E payload \in {None} \cup {Some(v) : v \in StorePayloads} : RecordEvent("tool_call", payload)
    \/ StepEnter("step")
    \/ StepExit

\* ------------------------------------------------------------------------
\* Calls of the functions that keep no state
\* ------------------------------------------------------------------------
\* No call.
InitIdleCall ==
    /\ call_fn = "none"
    /\ call_args = <<>>
    /\ call_out = None

\* The call returns value.
CallReturn(fn, value) ==
    /\ call_fn = fn
    /\ call_out = None
    /\ call_out' = Some(value)
    /\ UNCHANGED <<call_fn, call_args>>
    /\ UNCHANGED nonCallVars

\* Runs handed to compare_loaded_runs.
MaxCompareSteps == 2
CompareKinds == {1, 2, 3, 8}
CompareRuns == UNION {[1..n -> CompareKinds] : n \in 0..MaxCompareSteps}

InitCompare ==
    /\ call_fn = "compare_loaded_runs"
    /\ call_args \in [original : {Run("run-A", StepsOf(ids)) : ids \in CompareRuns},
                       replay : {Run("run-B", StepsOf(ids)) : ids \in CompareRuns},
                       ignore_timestamps : BOOLEAN]
    /\ call_out = None

CompareLoadedRuns ==
    CallReturn("compare_loaded_runs",
               compare_loaded_runs(call_args.original, call_args.replay,
                                   call_args.ignore_timestamps))

NextCompare == CompareLoadedRuns

\* Values handed to canon: one or more of each kind, among them values that
\* differ in key order, newlines, composition and the sign of zero only, and
\* strings and byte strings that spell the JSON text of another value.
CanonValues ==
    {VNull, VBool(TRUE), VBool(FALSE), VInt(1), VInt(0),
     VFloat("0.0"), VFloat("-0.0"), VFloat("1.5"), VFloat("nan"),
     VStr(<<"1">>), VStr(<<"n", "u", "l", "l">>), VStr(<<"t", "r", "u", "e">>),
     VStr(<<"N", "a", "N">>),
     VStr(<<"a", "CR", "LF">>), VStr(<<"a", "LF">>), VStr(<<"a", "CR">>),
     VStr(<<"e", "ACUTE">>), VStr(<<"e_acute">>),
     VStr(<<"[", "1", "]">>), VStr(<<"{", "\"", "a", "\"", ":", "1", "}">>),
     VBytes(<<"n", "u", "l", "l">>), VBytes(<<"{", "\"", "a", "\"", ":", "1", "}">>),
     VBytes(<<"a", "LF">>),
     VList(<<VInt(1)>>), VList(<<>>), VTuple(<<VInt(1)>>),
     VDict(<<>>), VDict(<< << <<"a">>, VInt(1) >> >>),
     VDict(<< << <<"a">>, VInt(1) >>, << <<"b">>, VStr(<<"a", "LF">>) >> >>),
     VDict(<< << <<"b">>, VStr(<<"a", "CR", "LF">>) >>, << <<"a">>, VInt(1) >> >>),
     VDict(<< << <<"a">>, VFloat("nan") >> >>),
     VDict(<< << <<"a">>, VStr(<<"N", "a", "N">>) >> >>),
     VDict(<< << <<"a">>, VBool(TRUE) >> >>)}

InitCanon ==
    /\ call_fn = "canon"
    /\ call_args \in [x : CanonValues, y : CanonValues]
    /\ call_out = None

\* canon(x) and canon(y)
Canon == CallReturn("canon", [x |-> canon(call_args.x), y |-> canon(call_args.y)])

NextCanon == Canon

\* The metadata of a recording: what the store stamps on steps and events.
Stamp(run_id, event_id, created_at, step_id, started_at, ended_at) ==
    [run_id |-> run_id, event_id |-> event_id, created_at |-> created_at,
     step_id |-> step_id, started_at |-> started_at, ended_at |-> ended_at]

Stamp0 == Stamp("run-0", None, "2024-01-01T00:00:00", None, "2024-01-01T00:00:00", None)
Stamps ==
    {Stamp0,
     Stamp("run-9", Some(7), "2025-06-30T12:00:00", Some(3), "2025-06-30T12:00:00",
           Some("2025-06-30T12:00:01"))}

\* Event and Step of types.py with all their fields.
StampedEvent(e, idx, stamp) ==
    [event_id |-> stamp.event_id, run_id |-> stamp.run_id, step_idx |-> idx, type |-> e.type,
     created_at |-> stamp.created_at, payload |-> e.payload]

StampedStep(step, stamp) ==
    [step_id |-> stamp.step_id, run_id |-> stamp.run_id, idx |-> step.idx, name |-> step.name,
     started_at |-> stamp.started_at, ended_at |-> stamp.ended_at,
     events |-> [k \in 1..Len(step.events) |-> StampedEvent(step.events[k], step.idx, stamp)]]

StampedSteps(ids, stamp) == [k \in 1..Len(ids) |-> StampedStep(StepsOf(ids)[k], stamp)]

\* What the comparisons say of two runs: find_first_divergence, compare_steps
\* on the steps at the same position and compare_events on their events at
\* the same position, all with their default arguments.
Comparisons(sa, sb) ==
    [divergence |-> find_first_divergence(sa, sb, DefaultWindow, DefaultContextSize, "both"),
     steps |-> [k \in 1..Min(Len(sa), Len(sb)) |-> compare_steps(sa[k], sb[k], TRUE)],
     events |-> [k \in 1..Min(Len(sa), Len(sb)) |->
                    [e \in 1..Min(Len(sa[k].events), Len(sb[k].events)) |->
                        compare_events(sa[k].events[e], sb[k].events[e], TRUE)]]]

\* Two runs, each recorded twice: once with the metadata Stamp0, once with
\* metadata of its own.
MaxMetaSteps == 2
MetaRuns == UNION {[1..n -> NarrowKinds] : n \in 0..MaxMetaSteps}

InitMeta ==
    /\ call_fn = "find_first_divergence"
    /\ call_args \in [run_a : MetaRuns, run_b : MetaRuns, stamp_a : Stamps, stamp_b : Stamps]
    /\ call_out = None

\* The comparisons of the two recordings of the pair.
CompareBothRecordings ==
    CallReturn("find_first_divergence",
               [first |-> Comparisons(StampedSteps(call_args.run_a, Stamp0),
                                      StampedSteps(call_args.run_b, Stamp0)),
                second |-> Comparisons(StampedSteps(call_args.run_a, call_args.stamp_a),
                                       StampedSteps(call_args.run_b, call_args.stamp_b))])

NextMeta == CompareBothRecordings

\* Pairs of runs handed to find_first_divergence with a resync window: none,
\* one position, two positions and the default.
MaxResyncSteps == 3
ResyncRuns == UNION {[1..n -> NarrowKinds] : n \in 0..MaxResyncSteps}
ResyncWindows == {0, 1, 2, DefaultWindow}

InitResync ==
    /\ call_fn = "find_first_divergence"
    /\ call_args \in [run_a : ResyncRuns, run_b : ResyncRuns, window : ResyncWindows]
    /\ call_out = None

FindFirstDivergence ==
    CallReturn("find_first_divergence",
               find_first_divergence(StepsOf(call_args.run_a), StepsOf(call_args.run_b),
                                     call_args.window, DefaultContextSize, "both"))

NextResync == FindFirstDivergence

\* Steps handed to compare_steps: the recorded bodies, and two bodies whose
\* input payloads differ in the timestamp key ts only.
PayloadTs(n) == VDict(<< << <<"x">>, VInt(1) >>, << <<"t", "s">>, VInt(n) >> >>)
StampBodies ==
    << [name |-> "gen", events |-> <<Event("input", PayloadTs(1)), Event("output", PayloadA)>>],
       [name |-> "gen", events |-> <<Event("input", PayloadTs(2)), Event("output", PayloadA)>>] >>
CompareStepsTable == ReplayTable \o StampBodies
CompareStepsInputs ==
    {Step(0, CompareStepsTable[k].name, CompareStepsTable[k].events) :
        k \in 1..Len(CompareStepsTable)}

InitSteps ==
    /\ call_fn = "compare_steps"
    /\ call_args \in [expected : CompareStepsInputs, actual : CompareStepsInputs,
                       ignore_timestamps : BOOLEAN]
    /\ call_out = None

CompareSteps ==
    CallReturn("compare_steps",
               compare_steps(call_args.expected, call_args.actual,
                             call_args.ignore_timestamps))

NextSteps == CompareSteps

\* Values handed to json_diff and deep_compare: every kind, numbers that are
\* equal across kinds, mappings that share, lose and gain keys, sequences of
\* several lengths, and timestamp keys at depth 0, 1 and 2.
KeyA == <<"a">>
KeyB == <<"b">>
KeyC == <<"c">>
KeyD == <<"d">>
KeyTs == <<"t", "s">>
Dict1(key, value) == VDict(<< <<key, value>> >>)
DiffValues ==
    {VNull, VBool(TRUE), VBool(FALSE), VInt(0), VInt(1), VInt(2),
     VFloat("1.0"), VFloat("1.5"), VFloat("nan"), VStr(<<"a">>), VStr(<<"b">>),
     VList(<<>>), VList(<<VInt(1)>>), VList(<<VInt(2)>>), VList(<<VInt(1), VInt(2)>>),
     VList(<<VInt(2), VInt(1), VInt(0)>>), VList(<<VFloat("1.0")>>),
     VList(<<Dict1(KeyTs, VInt(1))>>), VList(<<Dict1(KeyTs, VInt(2))>>),
     VTuple(<<VInt(1)>>), VTuple(<<VBool(TRUE)>>),
     VTuple(<<Dict1(KeyTs, VInt(1))>>), VTuple(<<Dict1(KeyTs, VInt(2))>>),
     VDict(<<>>), Dict1(KeyA, VInt(1)), Dict1(KeyA, VInt(2)), Dict1(KeyB, VInt(1)),
     Dict1(KeyA, VFloat("nan")), Dict1(KeyTs, VInt(1)), Dict1(KeyTs, VInt(2)),
     VDict(<< <<KeyD, VInt(1)>>, <<KeyA, VInt(1)>>, <<KeyC, VInt(1)>>, <<KeyB, VInt(1)>> >>),
     VDict(<< <<KeyB, VInt(2)>>, <<KeyA, VInt(2)>> >>),
     VDict(<< <<KeyA, VInt(1)>>, <<KeyTs, VInt(1)>> >>),
     Dict1(KeyA, VDict(<< <<KeyB, VInt(1)>>, <<KeyTs, VInt(1)>> >>)),
     Dict1(KeyA, VDict(<< <<KeyB, VInt(1)>>, <<KeyTs, VInt(2)>> >>)),
     Dict1(KeyA, VList(<<VInt(1), VInt(2)>>))}

IgnoreSets == {{}, TimestampFields}

InitJson ==
    /\ \/ /\ call_fn = "json_diff"
          /\ call_args \in [old : DiffValues, new : DiffValues]
       \/ /\ call_fn = "deep_compare"
          /\ call_args \in [expected : DiffValues, actual : DiffValues,
                             ignore_fields : IgnoreSets]
    /\ call_out = None

\* json_diff(old, new)
JsonDiff == CallReturn("json_diff", json_diff(call_args.old, call_args.new))

\* deep_compare(expected, actual, ignore_fields=ignore_fields)
DeepCompare ==
    CallReturn("deep_compare",
               deep_compare(call_args.expected, call_args.actual, <<>>,
                            call_args.ignore_fields))

NextJson ==
    \/ JsonDiff
    \/ DeepCompare

\* v with every occurrence of the value old replaced by new.
RECURSIVE Substitute(_, _, _)
Substitute(v, old, new) ==
    IF v = old THEN new
    ELSE CASE v.kind = "dict" ->
                VDict([k \in 1..Len(v.items) |->
                          <<v.items[k][1], Substitute(v.items[k][2], old, new)>>])
           [] v.kind = "list" ->
                VList([k \in 1..Len(v.items) |-> Substitute(v.items[k], old, new)])
           [] v.kind = "tuple" ->
                VTuple([k \in 1..Len(v.items) |-> Substitute(v.items[k], old, new)])
           [] OTHER -> v

\* A payload and the payloads that differ from it in the values s1 or s2 only.
OtherValue == VInt(7)
SecretVariants(payload) ==
    {payload, Substitute(payload, S1, OtherValue), Substitute(payload, S2, OtherValue)}

\* The same policy applied to two payloads.
InitSecret ==
    /\ call_fn = "redact"
    /\ call_args \in UNION {[rules : RuleLists, payload : {p}, other : SecretVariants(p)] :
                              p \in RedactionPayloads}
    /\ call_out = None

RedactBoth ==
    CallReturn("redact",
               [first |-> redact(call_args.rules, "tool_call", call_args.payload),
                second |-> redact(call_args.rules, "tool_call", call_args.other)])

NextSecret == RedactBoth

steps_a == StepsOf(run_a)
steps_b == StepsOf(run_b)

InitDiff ==
    /\ \/ run_a \in NarrowRuns /\ run_b \in NarrowRuns
       \/ run_a \in WideRuns /\ run_b \in WideRuns
    /\ \E p \in Params : window = p[1] /\ context_size = p[2]
    /\ show = "both"
    /\ pc = "loop"
    /\ i = 0
    /\ last_equal = -1
    /\ dtype = EXACT_MATCH
    /\ resync = None
    /\ result = None
    /\ classified = {}
    /\ reads_a = {}
    /\ reads_b = {}

InLoop == i < Len(steps_a) /\ i < Len(steps_b)

\* Mutation of LoopMatch: the matched position is not remembered.
LoopMatch_NoLastEqual ==
    /\ pc = "loop"
    /\ InLoop
    /\ _classify_step_divergence(At(steps_a, i), At(steps_b, i)) = EXACT_MATCH
    /\ i' = i + 1
    /\ classified' = classified \cup {i}
    /\ reads_a' = reads_a \cup {i}
    /\ reads_b' = reads_b \cup {i}
    /\ UNCHANGED <<run_a, run_b, window, context_size, show, pc, last_equal, dtype, resync, result>>
    /\ UNCHANGED nonDiffVars

\* Mutation of LoopMatch: the position is not advanced.
LoopMatch_NoAdvance ==
    /\ pc = "loop"
    /\ InLoop
    /\ _classify_step_divergence(At(steps_a, i), At(steps_b, i)) = EXACT_MATCH
    /\ last_equal' = i
    /\ classified' = classified \cup {i}
    /\ reads_a' = reads_a \cup {i}
    /\ reads_b' = reads_b \cup {i}
    /\ UNCHANGED <<run_a, run_b, window, context_size, show, pc, i, dtype, resync, result>>
    /\ UNCHANGED nonDiffVars

\* while-loop body, the steps at i match: advance.
LoopMatch ==
    /\ pc = "loop"
    /\ InLoop
    /\ _classify_step_divergence(At(steps_a, i), At(steps_b, i)) = EXACT_MATCH
    /\ last_equal' = i
    /\ i' = i + 1
    /\ classified' = classified \cup {i}
    /\ reads_a' = reads_a \cup {i}
    /\ reads_b' = reads_b \cup {i}
    /\ UNCHANGED <<run_a, run_b, window, context_size, show, pc, dtype, resync, result>>
    /\ UNCHANGED nonDiffVars

\* while-loop body, the steps at i differ: attempt resync within the window.
LoopMismatch ==
    /\ pc = "loop"
    /\ InLoop
    /\ LET d == _classify_step_divergence(At(steps_a, i), At(steps_b, i))
           r == _try_resync(steps_a, steps_b, i, window)
       IN  /\ d # EXACT_MATCH
           /\ dtype' = d
           /\ resync' = r.found
           /\ reads_a' = reads_a \cup {i} \cup r.reads_a
           /\ reads_b' = reads_b \cup {i} \cup r.reads_b
    /\ classified' = classified \cup {i}
    /\ pc' = "resync"
    /\ UNCHANGED <<run_a, run_b, window, context_size, show, i, last_equal, result>>
    /\ UNCHANGED nonDiffVars

GapA == IF resync = None THEN 0 ELSE resync[1][1] - i
GapB == IF resync = None THEN 0 ELSE resync[1][2] - i

Return(r, ra, rb) ==
    /\ result' = Some(r)
    /\ reads_a' = reads_a \cup ra
    /\ reads_b' = reads_b \cup rb
    /\ pc' = "done"
    /\ UNCHANGED <<run_a, run_b, window, context_size, show, i, last_equal, dtype, resync, classified>>
    /\ UNCHANGED nonDiffVars

\* resync found a gap in run_b only: steps of run_a are missing in run_b.
ReturnResyncMissing ==
    /\ pc = "resync"
    /\ resync # None /\ GapA > 0 /\ GapB = 0
    /\ Return(FirstDivergenceResult(
                 MISSING_STEPS, Some(i), Some(i),
                 _make_explanation(MISSING_STEPS, Some(At(steps_a, i)), Some(At(steps_b, i)),
                                   Some(i), Some(i), GapA, 0),
                 Some(_make_summary(At(steps_a, i))), Some(_make_summary(At(steps_b, i))),
                 None, None, last_equal,
                 _get_context(steps_a, i, context_size),
                 _get_context(steps_b, i, context_size)),
              ContextReads(steps_a, i, context_size),
              ContextReads(steps_b, i, context_size))

\* resync found a gap in run_a only: run_b has extra steps.
ReturnResyncExtra ==
    /\ pc = "resync"
    /\ resync # None /\ GapB > 0 /\ GapA = 0
    /\ Return(FirstDivergenceResult(
                 EXTRA_STEPS, Some(i), Some(i),
                 _make_explanation(EXTRA_STEPS, Some(At(steps_a, i)), Some(At(steps_b, i)),
                                   Some(i), Some(i), 0, GapB),
                 Some(_make_summary(At(steps_a, i))), Some(_make_summary(At(steps_b, i))),
                 None, None, last_equal,
                 _get_context(steps_a, i, context_size),
                 _get_context(steps_b, i, context_size)),
              ContextReads(steps_a, i, context_size),
              ContextReads(steps_b, i, context_size))

\* no resync, or both gaps positive: classify at the current position.
ReturnLocal ==
    /\ pc = "resync"
    /\ ~(resync # None /\ GapA > 0 /\ GapB = 0)
    /\ ~(resync # None /\ GapB > 0 /\ GapA = 0)
    /\ LET diffs == _compute_diffs(Some(At(steps_a, i)), Some(At(steps_b, i)), dtype, show)
       IN  Return(FirstDivergenceResult(
                     dtype, Some(i), Some(i),
                     _make_explanation(dtype, Some(At(steps_a, i)), Some(At(steps_b, i)),
                                       Some(i), Some(i), 0, 0),
                     Some(_make_summary(At(steps_a, i))), Some(_make_summary(At(steps_b, i))),
                     diffs[1], diffs[2], last_equal,
                     _get_context(steps_a, i, context_size),
                     _get_context(steps_b, i, context_size)),
                  ContextReads(steps_a, i, context_size),
                  ContextReads(steps_b, i, context_size))

\* the loop ended and run_a is longer.
ReturnTailMissing ==
    /\ pc = "loop"
    /\ ~InLoop
    /\ Len(steps_a) > Len(steps_b)
    /\ LET idx == Len(steps_b)
           gap == Len(steps_a) - Len(steps_b)
       IN  Return(FirstDivergenceResult(
                     MISSING_STEPS, Some(idx), None,
                     _make_explanation(MISSING_STEPS, Some(At(steps_a, idx)), None,
                                       Some(idx), None, gap, 0),
                     Some(_make_summary(At(steps_a, idx))), None,
                     None, None, last_equal,
                     _get_context(steps_a, idx, context_size),
                     IF steps_b # <<>>
                         THEN _get_context(steps_b, Len(steps_b) - 1, context_size)
                     ELSE <<>>),
                  ContextReads(steps_a, idx, context_size),
                  IF steps_b # <<>>
                      THEN ContextReads(steps_b, Len(steps_b) - 1, context_size)
                  ELSE {})

\* Mutation of ReturnTailExtra: the explanation is made for a gap of one step.
ReturnTailExtra_GapOne ==
    /\ pc = "loop"
    /\ ~InLoop
    /\ ~(Len(steps_a) > Len(steps_b))
    /\ Len(steps_b) > Len(steps_a)
    /\ LET idx == Len(steps_a)
       IN  Return(FirstDivergenceResult(
                     EXTRA_STEPS, None, Some(idx),
                     _make_explanation(EXTRA_STEPS, None, Some(At(steps_b, idx)),
                                       None, Some(idx), 0, 1),
                     None, Some(_make_summary(At(steps_b, idx))),
                     None, None, last_equal,
                     IF steps_a # <<>>
                         THEN _get_context(steps_a, Len(steps_a) - 1, context_size)
                     ELSE <<>>,
                     _get_context(steps_b, idx, context_size)),
                  IF steps_a # <<>>
                      THEN ContextReads(steps_a, Len(steps_a) - 1, context_size)
                  ELSE {},
                  ContextReads(steps_b, idx, context_size))

\* the loop ended and run_b is longer.
ReturnTailExtra ==
    /\ pc = "loop"
    /\ ~InLoop
    /\ ~(Len(steps_a) > Len(steps_b))
    /\ Len(steps_b) > Len(steps_a)
    /\ LET idx == Len(steps_a)
           gap == Len(steps_b) - Len(steps_a)
       IN  Return(FirstDivergenceResult(
                     EXTRA_STEPS, None, Some(idx),
                     _make_explanation(EXTRA_STEPS, None, Some(At(steps_b, idx)),
                                       None, Some(idx), 0, gap),
                     None, Some(_make_summary(At(steps_b, idx))),
                     None, None, last_equal,
                     IF steps_a # <<>>
                         THEN _get_context(steps_a, Len(steps_a) - 1, context_size)
                     ELSE <<>>,
                     _get_context(steps_b, idx, context_size)),
                  IF steps_a # <<>>
                      THEN ContextReads(steps_a, Len(steps_a) - 1, context_size)
                  ELSE {},
                  ContextReads(steps_b, idx, context_size))

\* the loop ended and the runs have the same length.
ReturnExactMatch ==
    /\ pc = "loop"
    /\ ~InLoop
    /\ ~(Len(steps_a) > Len(steps_b))
    /\ ~(Len(steps_b) > Len(steps_a))
    /\ Return(FirstDivergenceResult(
                 EXACT_MATCH, None, None,
                 <<"Runs are identical (">> \o IntChars(Len(steps_a)) \o <<" steps compared)">>,
                 None, None, None, None, last_equal, <<>>, <<>>),
              {}, {})

NextDiff ==
    \/ LoopMatch
    \/ LoopMismatch
    \/ ReturnResyncMissing
    \/ ReturnResyncExtra
    \/ ReturnLocal
    \/ ReturnTailMissing
    \/ ReturnTailExtra
    \/ ReturnExactMatch

\* ------------------------------------------------------------------------
\* Specifications
\* ------------------------------------------------------------------------

\* The diff engine on every pair of runs of the input families.
InitIdleLater == InitIdleContext /\ InitIdleRedaction /\ InitIdleRecording /\ InitIdleCall

Init == InitDiff /\ InitMode(MainTask) /\ InitIdleEngine /\ InitIdleLater
Next == NextDiff
Spec == Init /\ [][Next]_vars

\* The replay-mode guardrails, no comparison running.
InitIdleDiff ==
    /\ run_a = <<>>
    /\ run_b = <<>>
    /\ window = DefaultWindow
    /\ context_size = DefaultContextSize
    /\ show = "both"
    /\ pc = "done"
    /\ i = 0
    /\ last_equal = -1
    /\ dtype = EXACT_MATCH
    /\ resync = None
    /\ result = None
    /\ classified = {}
    /\ reads_a = {}
    /\ reads_b = {}

ModeInit == InitIdleDiff /\ InitMode(MainTask) /\ InitIdleEngine /\ InitIdleLater
ModeNext == NextMode
SpecMode == ModeInit /\ [][ModeNext]_vars

\* ReplayEngine.replay, called by one task, with the executor's guarded calls.
EngineInit == InitIdleDiff /\ InitMode(MainTask) /\ InitEngine /\ InitIdleLater
EngineNext == NextEngine
SpecEngine == EngineInit /\ [][EngineNext]_vars

\* Two tasks using the replay-mode guardrails concurrently.
TasksInit == InitIdleDiff /\ InitMode(MainTask) /\ InitIdleEngine /\ InitIdleLater
TasksNext == NextTasks
SpecTasks == TasksInit /\ [][TasksNext]_vars

\* A ReplayContext under every sequence of its calls.
ContextInit ==
    /\ InitIdleDiff /\ InitMode(MainTask) /\ InitIdleEngine
    /\ InitContext /\ InitIdleRedaction /\ InitIdleRecording /\ InitIdleCall
ContextNext == NextContext
SpecContext == ContextInit /\ [][ContextNext]_vars

\* A ReplayContext under every sequence of peek_event, next_event and
\* reset_cursor.
CursorInit ==
    /\ InitIdleDiff /\ InitMode(MainTask) /\ InitIdleEngine
    /\ InitContext /\ InitIdleRedaction /\ InitIdleRecording /\ InitIdleCall
CursorNext == NextCursor
SpecCursor == CursorInit /\ [][CursorNext]_vars

\* RedactionPolicy.redact on every policy and payload of the input families.
RedactionInit ==
    /\ InitIdleDiff /\ InitMode(MainTask) /\ InitIdleEngine
    /\ InitIdleContext /\ InitRedaction /\ InitIdleRecording /\ InitIdleCall
RedactionNext == NextRedaction
SpecRedaction == RedactionInit /\ [][RedactionNext]_vars

\* compare_loaded_runs on every pair of runs of the input family.
CompareInit ==
    /\ InitIdleDiff /\ InitMode(MainTask) /\ InitIdleEngine
    /\ InitIdleContext /\ InitIdleRedaction /\ InitIdleRecording /\ InitCompare
CompareNext == NextCompare
SpecCompare == CompareInit /\ [][CompareNext]_vars

\* canon on every pair of values of the input family.
CanonInit ==
    /\ InitIdleDiff /\ InitMode(MainTask) /\ InitIdleEngine
    /\ InitIdleContext /\ InitIdleRedaction /\ InitIdleRecording /\ InitCanon
CanonNext == NextCanon
SpecCanon == CanonInit /\ [][CanonNext]_vars

\* The comparisons on two recordings that differ in metadata only.
MetaInit ==
    /\ InitIdleDiff /\ InitMode(MainTask) /\ InitIdleEngine
    /\ InitIdleContext /\ InitIdleRedaction /\ InitIdleRecording /\ InitMeta
MetaNext == NextMeta
SpecMeta == MetaInit /\ [][MetaNext]_vars

\* find_first_divergence on every pair of runs and window of the input family.
ResyncInit ==
    /\ InitIdleDiff /\ InitMode(MainTask) /\ InitIdleEngine
    /\ InitIdleContext /\ InitIdleRedaction /\ InitIdleRecording /\ InitResync
ResyncNext == NextResync
SpecResync == ResyncInit /\ [][ResyncNext]_vars

\* compare_steps on every pair of steps of the input family.
StepsInit ==
    /\ InitIdleDiff /\ InitMode(MainTask) /\ InitIdleEngine
    /\ InitIdleContext /\ InitIdleRedaction /\ InitIdleRecording /\ InitSteps
StepsNext == NextSteps
SpecSteps == StepsInit /\ [][StepsNext]_vars

\* json_diff and deep_compare on every pair of values of the input family.
JsonInit ==
    /\ InitIdleDiff /\ InitMode(MainTask) /\ InitIdleEngine
    /\ InitIdleContext /\ InitIdleRedaction /\ InitIdleRecording /\ InitJson
JsonNext == NextJson
SpecJson == JsonInit /\ [][JsonNext]_vars

\* redact on every pair of a payload and a variant of it, under every policy
\* of the input family.
SecretInit ==
    /\ InitIdleDiff /\ InitMode(MainTask) /\ InitIdleEngine
    /\ InitIdleContext /\ InitIdleRedaction /\ InitIdleRecording /\ InitSecret
SecretNext == NextSecret
SpecSecret == SecretInit /\ [][SecretNext]_vars

\* The recording path: RunRecorder.log_event and Tracer / SQLiteStore.
RecordingInit ==
    /\ InitIdleDiff /\ InitMode(MainTask) /\ InitIdleEngine
    /\ InitIdleContext /\ InitIdleRedaction /\ InitRecording /\ InitIdleCall
RecordingNext == NextRecording
SpecRecording == RecordingInit /\ [][RecordingNext]_vars


\* ------------------------------------------------------------------------
\* Notions the properties are stated in
\* ------------------------------------------------------------------------
Res == result[1]

TablePayloads ==
    UNION {{StepTable[k].events[e].payload : e \in 1..Len(StepTable[k].events)} :
              k \in 1..Len(StepTable)}

PayloadCanon == [p \in TablePayloads |-> canon(p)]

\* Two lists of payloads are canonically equal, element by element.
SamePayloads(ps, qs) ==
    /\ Len(ps) = Len(qs)
    /\ \A k \in 1..Len(ps) : PayloadCanon[ps[k]] = PayloadCanon[qs[k]]

\* Two steps are identical: the same name and canonically equal ordered lists
\* of (event type, payload).
StepsIdentical(sa, sb) ==
    /\ sa.name = sb.name
    /\ Len(sa.events) = Len(sb.events)
    /\ \A k \in 1..Len(sa.events) :
          /\ sa.events[k].type = sb.events[k].type
          /\ PayloadCanon[sa.events[k].payload] = PayloadCanon[sb.events[k].payload]

\* The two runs are identical at every position before p.
IdenticalBefore(p) ==
    /\ p <= Len(steps_a)
    /\ p <= Len(steps_b)
    /\ \A q \in 0..(p - 1) : StepsIdentical(At(steps_a, q), At(steps_b, q))

\* p is the first position at which both runs have a step and the steps are
\* not identical.
FirstDifference(p) ==
    /\ p < Len(steps_a)
    /\ p < Len(steps_b)
    /\ IdenticalBefore(p)
    /\ ~StepsIdentical(At(steps_a, p), At(steps_b, p))

\* resync found a pair with a gap on one side only.
OneSidedGap == resync # None /\ ((GapA > 0 /\ GapB = 0) \/ (GapB > 0 /\ GapA = 0))

\* ------------------------------------------------------------------------
\* C1
\* ------------------------------------------------------------------------
ResultShape ==
    /\ result # None
    /\ Res.status \in DivergenceType
    /\ (Res.idx_a = None /\ Res.idx_b = None) <=> (Res.status = EXACT_MATCH)
    /\ (Res.idx_a # None /\ Res.idx_b # None) => Res.idx_a = Res.idx_b

\* What is left to do: twice the loop iterations, plus the steps to the return.
Measure ==
    2 * (Min(Len(run_a), Len(run_b)) - i)
    + (CASE pc = "loop" -> 2 [] pc = "resync" -> 1 [] OTHER -> 0)

\* A step is possible: inside the loop the classification is one of the
\* seven statuses, so the step either matches or mismatches; after the loop one
\* of the three length cases applies; after a mismatch one of the three returns.
CanStep ==
    \/ /\ pc = "loop"
       /\ InLoop
       /\ _classify_step_divergence(At(steps_a, i), At(steps_b, i)) \in DivergenceType
    \/ /\ pc = "loop"
       /\ ~InLoop
       /\ \/ Len(steps_a) > Len(steps_b)
          \/ Len(steps_b) > Len(steps_a)
          \/ Len(steps_a) = Len(steps_b)
    \/ /\ pc = "resync"
       /\ i < Len(steps_a)
       /\ i < Len(steps_b)

\* C1: for every pair of runs (also empty ones) and every window >= 0,
\* find_first_divergence terminates (before the return a step is always
\* possible, and every step decreases Measure, which stays >= 0) and returns
\* exactly one result: its status is one of the seven, idx_a and idx_b are both
\* null iff the status is exact_match, and when both are non-null they are equal.
C1_ExactlyOneDivergence ==
    /\ [](pc = "done" => ResultShape)
    /\ [](pc # "done" => (result = None /\ Measure >= 0 /\ CanStep))
    /\ [][Measure' < Measure /\ (result # None => result' = result)]_vars

C1_Witness ==
    /\ pc = "done"
    /\ run_a = <<>>
    /\ window = 0
    /\ Res.status = EXTRA_STEPS
    /\ Res.idx_a = None
    /\ Res.idx_b = Some(0)

\* ------------------------------------------------------------------------
\* C2
\* ------------------------------------------------------------------------
RunsIdentical ==
    /\ Len(steps_a) = Len(steps_b)
    /\ \A q \in 0..(Len(steps_a) - 1) : StepsIdentical(At(steps_a, q), At(steps_b, q))

\* C2: the result is exact_match iff the two runs have the same number of steps
\* and at every position the steps have the same name and canonically equal
\* ordered lists of (event type, payload); then idx_a = idx_b = null,
\* last_equal_idx = n - 1 (-1 for two empty runs) and the explanation is
\* "Runs are identical (n steps compared)".
C2_ExactMatchIffIdentical ==
    pc = "done" =>
        /\ (Res.status = EXACT_MATCH) <=> RunsIdentical
        /\ Res.status = EXACT_MATCH =>
              /\ Res.idx_a = None
              /\ Res.idx_b = None
              /\ Res.last_equal_idx = Len(steps_a) - 1
              /\ Res.explanation
                    = <<"Runs are identical (">> \o IntChars(Len(steps_a))
                      \o <<" steps compared)">>

\* An exact match of two runs whose steps are not the same values.
C2_Witness ==
    /\ pc = "done"
    /\ Res.status = EXACT_MATCH
    /\ Len(run_a) > 0
    /\ steps_a # steps_b

\* ------------------------------------------------------------------------
\* C3
\* ------------------------------------------------------------------------
InputPayloads(step) == PayloadsOfType(step.events, "input")
ErrorPayloads(step) == PayloadsOfType(step.events, "error")

\* The status the priority order names for two steps that are not identical.
PriorityStatus(sa, sb) ==
    IF sa.name # sb.name THEN OP_DIVERGENCE
    ELSE IF ~SamePayloads(InputPayloads(sa), InputPayloads(sb)) THEN INPUT_DIVERGENCE
    ELSE IF \/ (ErrorPayloads(sa) = <<>>) # (ErrorPayloads(sb) = <<>>)
            \/ /\ ErrorPayloads(sa) # <<>>
               /\ ErrorPayloads(sb) # <<>>
               /\ ~SamePayloads(ErrorPayloads(sa), ErrorPayloads(sb))
        THEN ERROR_DIVERGENCE
    ELSE OUTPUT_DIVERGENCE

\* C3: at the first position p where the steps of the two runs are not
\* identical, when resync does not yield a one-sided gap, the status is
\* op_divergence if the names differ, otherwise input_divergence if the lists
\* of input payloads differ, otherwise error_divergence if exactly one step has
\* an error event or both have error events with different payloads, otherwise
\* output_divergence; and idx_a = idx_b = p.
C3_PriorityClassification ==
    \A p \in 0..(Len(run_a) - 1) :
        (pc = "done" /\ FirstDifference(p) /\ ~OneSidedGap) =>
            /\ Res.status = PriorityStatus(At(steps_a, p), At(steps_b, p))
            /\ Res.idx_a = Some(p)
            /\ Res.idx_b = Some(p)

\* Both steps have an error event, with different payloads, and the outputs
\* differ too: error_divergence.
C3_Witness ==
    /\ pc = "done"
    /\ Res.status = ERROR_DIVERGENCE
    /\ Len(run_a) > 0 /\ Len(run_b) > 0
    /\ ErrorPayloads(At(steps_a, 0)) # <<>>
    /\ ErrorPayloads(At(steps_b, 0)) # <<>>
    /\ OutputHashOf(At(steps_a, 0)) # OutputHashOf(At(steps_b, 0))

\* ------------------------------------------------------------------------
\* C4
\* ------------------------------------------------------------------------
OutputPayloads(step) == PayloadsOfType(step.events, "output")

\* At p the two steps have the same name, the same input events, no error
\* events, and different output events.
OutputOnlyDifference(p) ==
    /\ At(steps_a, p).name = At(steps_b, p).name
    /\ SamePayloads(InputPayloads(At(steps_a, p)), InputPayloads(At(steps_b, p)))
    /\ ErrorPayloads(At(steps_a, p)) = <<>>
    /\ ErrorPayloads(At(steps_b, p)) = <<>>
    /\ ~SamePayloads(OutputPayloads(At(steps_a, p)), OutputPayloads(At(steps_b, p)))

SignaturesOf(steps) == {_step_signature(At(steps, q)) : q \in 0..(Len(steps) - 1)}

\* long is short with k consecutive steps inserted at position p.
InsertedAt(short, long, p, k) ==
    /\ Len(long) = Len(short) + k
    /\ \A q \in 0..(p - 1) : StepsIdentical(At(short, q), At(long, q))
    /\ \A q \in p..(Len(short) - 1) : StepsIdentical(At(short, q), At(long, q + k))

\* The text naming step first, or the range first..last, followed by suffix.
RangeText(first, last, suffix) ==
    IF last > first
        THEN <<"Steps ">> \o IntChars(first) \o <<"..">> \o IntChars(last) \o <<suffix>>
    ELSE <<"Step ">> \o IntChars(first) \o <<suffix>>

\* C5: if run_b is run_a with k consecutive extra steps inserted at position
\* p < len(run_a), 1 <= k < window, and no inserted step has the signature
\* (name, input hash) of a step of run_a, the result is extra_steps with
\* idx_b = p and last_equal_idx = p - 1, and the explanation names step p (the
\* range p..p+k-1 when k > 1) of run_b as not present in run_a.
C5_InsertedSteps ==
    \A p \in 0..(Len(run_a) - 1) : \A k \in 1..(window - 1) :
        (/\ pc = "done"
         /\ InsertedAt(steps_a, steps_b, p, k)
         /\ \A q \in p..(p + k - 1) :
               _step_signature(At(steps_b, q)) \notin SignaturesOf(steps_a)) =>
            /\ Res.status = EXTRA_STEPS
            /\ Res.idx_b = Some(p)
            /\ Res.last_equal_idx = p - 1
            /\ Res.explanation = RangeText(p, p + k - 1, " in run_b not present in run_a")

\* Two steps inserted before the only step of run_a.
C5_Witness ==
    /\ pc = "done"
    /\ Len(run_a) = 1
    /\ Len(run_b) = 3
    /\ InsertedAt(steps_a, steps_b, 0, 2)
    /\ Res.status = EXTRA_STEPS
    /\ Res.explanation = <<"Steps ", "0", "..", "1", " in run_b not present in run_a">>

\* ------------------------------------------------------------------------
\* C6
\* ------------------------------------------------------------------------

\* C6: if run_b is run_a with k consecutive steps deleted at position p, at
\* least one step of run_a remaining after them, 1 <= k < window, and no
\* deleted step has the signature (name, input hash) of a step of run_b, the
\* result is missing_steps with idx_a = p and last_equal_idx = p - 1.
C6_DeletedSteps ==
    \A p \in 0..(Len(run_b) - 1) : \A k \in 1..(window - 1) :
        (/\ pc = "done"
         /\ InsertedAt(steps_b, steps_a, p, k)
         /\ \A q \in p..(p + k - 1) :
               _step_signature(At(steps_a, q)) \notin SignaturesOf(steps_b)) =>
            /\ Res.status = MISSING_STEPS
            /\ Res.idx_a = Some(p)
            /\ Res.last_equal_idx = p - 1

\* The middle step of three is deleted.
C6_Witness ==
    /\ pc = "done"
    /\ Len(run_a) = 3
    /\ Len(run_b) = 2
    /\ InsertedAt(steps_b, steps_a, 1, 1)
    /\ Res.status = MISSING_STEPS
    /\ Res.idx_a = Some(1)
    /\ Res.last_equal_idx = 0

\* ------------------------------------------------------------------------
\* C7
\* ------------------------------------------------------------------------
StrictPrefix(short, long) ==
    /\ Len(short) < Len(long)
    /\ \A q \in 0..(Len(short) - 1) : StepsIdentical(At(short, q), At(long, q))

\* C7: if one run is a strict positional prefix of the other, the result is
\* missing_steps with idx_a = len(run_b), idx_b = null when run_a is longer, and
\* extra_steps with idx_b = len(run_a), idx_a = null when run_b is longer; in
\* both cases last_equal_idx = len(shorter) - 1, input_diff and output_diff are
\* null, and the explanation names the whole remaining tail.
C7_PrefixTail ==
    pc = "done" =>
        /\ StrictPrefix(steps_b, steps_a) =>
              /\ Res.status = MISSING_STEPS
              /\ Res.idx_a = Some(Len(steps_b))
              /\ Res.idx_b = None
              /\ Res.last_equal_idx = Len(steps_b) - 1
              /\ Res.input_diff = None
              /\ Res.output_diff = None
              /\ Res.explanation = RangeText(Len(steps_b), Len(steps_a) - 1,
                                             " from run_a missing in run_b")
        /\ StrictPrefix(steps_a, steps_b) =>
              /\ Res.status = EXTRA_STEPS
              /\ Res.idx_b = Some(Len(steps_a))
              /\ Res.idx_a = None
              /\ Res.last_equal_idx = Len(steps_a) - 1
              /\ Res.input_diff = None
              /\ Res.output_diff = None
              /\ Res.explanation = RangeText(Len(steps_a), Len(steps_b) - 1,
                                             " in run_b not present in run_a")

\* run_b continues two steps after the end of run_a.
C7_Witness ==
    /\ pc = "done"
    /\ Len(run_a) = 1
    /\ Len(run_b) = 3
    /\ StrictPrefix(steps_a, steps_b)
    /\ Res.status = EXTRA_STEPS
    /\ Res.idx_a = None
    /\ Res.explanation = <<"Steps ", "1", "..", "2", " in run_b not present in run_a">>

\* ------------------------------------------------------------------------
\* C8
\* ------------------------------------------------------------------------

\* The first diverging position has been found: a mismatch in the loop, or the
\* end of the shorter run.
DivergenceFound ==
    \/ pc = "resync"
    \/ pc = "done" /\ result # None /\ Res.status # EXACT_MATCH

\* C8 as stated: once the first diverging position i is found, no step at a
\* position greater than i is read, hashed or compared.
C8_NothingReadBeyond ==
    DivergenceFound => \A p \in reads_a \cup reads_b : p <= i

\* C8: while the loop runs, only positions before the current one have been
\* read and classified; once the first diverging position i is found, no pair
\* of steps after i is classified, and the later steps read are those of the
\* resync lookahead (positions below i + window) and of the context (positions
\* up to i + context_size).
C8_HaltAtFirstDivergence ==
    /\ pc = "loop" =>
          /\ classified = 0..(i - 1)
          /\ reads_a \cup reads_b \subseteq 0..(i - 1)
    /\ DivergenceFound =>
          /\ classified \subseteq 0..i
          /\ \A p \in reads_a \cup reads_b : p <= i + Max(window - 1, context_size)

\* A step after the diverging position was read by the time of the return.
C8_Witness ==
    /\ pc = "done"
    /\ result # None
    /\ Res.status = OUTPUT_DIVERGENCE
    /\ \E p \in reads_b : p > i
    /\ classified = 0..i

\* ------------------------------------------------------------------------
\* C9
\* ------------------------------------------------------------------------

\* C9: guard_live_call raises DeterminismViolationError with violation_type
\* "live_call_during_replay" iff it is called while at least one replay_mode
\* scope is open in the current context; with no scope open (none entered yet,
\* or all exited, normally or by an exception) it returns normally.
C9_GuardInsideScope ==
    \A t \in Tasks :
        guard_log[t] # None =>
            LET call == guard_log[t][1]
            IN  /\ (call.exception # None) <=> (call.depth > 0)
                /\ call.exception # None =>
                      /\ call.exception[1].type = "DeterminismViolationError"
                      /\ call.exception[1].violation_type = "live_call_during_replay"

\* The guard returns normally after a scope was left by an exception.
C9_Witness ==
    \E t \in Tasks :
        /\ last_exit[t].kind = "exception"
        /\ Depth(t) = 0
        /\ raised[t] = None
        /\ guard_log[t] # None
        /\ guard_log[t][1].depth = 0
        /\ guard_log[t][1].exception = None

\* ------------------------------------------------------------------------
\* C10
\* ------------------------------------------------------------------------

\* C10: each exit of a replay_mode scope, normal or exceptional, restores
\* is_replay_mode_active() and get_replay_run_id() to the values they had right
\* before the scope was entered; while scopes are open the current run id is
\* that of the innermost open scope, and with no scope open the mode is off and
\* get_replay_run_id() is None.
C10_ScopesRestore ==
    /\ [][\A t \in Tasks :
            Len(scopes'[t]) < Len(scopes[t]) =>
                /\ is_replay_mode_active(t)' = Innermost(t).before_active
                /\ get_replay_run_id(t)' = Innermost(t).before_run_id]_vars
    /\ [](\A t \in Tasks :
            /\ Depth(t) > 0 =>
                  /\ is_replay_mode_active(t)
                  /\ get_replay_run_id(t) = Innermost(t).run_id
            /\ Depth(t) = 0 =>
                  /\ ~is_replay_mode_active(t)
                  /\ get_replay_run_id(t) = None)

\* An inner scope for run-B was left by an exception, the scope for run-A is
\* open and current again.
C10_Witness ==
    \E t \in Tasks :
        /\ last_exit[t] = [kind |-> "exception", run_id |-> Some("run-B")]
        /\ Depth(t) = 1
        /\ is_replay_mode_active(t)
        /\ get_replay_run_id(t) = Some("run-A")

\* ------------------------------------------------------------------------
\* C11
\* ------------------------------------------------------------------------

\* C11: during ReplayEngine.replay(run_id, executor=f) every call of the
\* executor happens inside the replay-mode scope of that run:
\* is_replay_mode_active() is true in each call, the current run id is that of
\* the replayed run, and a guard_live_call made by the executor raises.
C11_ExecutorInsideScope ==
    /\ \A k \in 1..Len(executor_calls) :
          /\ executor_calls[k].active
          /\ executor_calls[k].run_id = Some(EngineRunId)
    /\ \A t \in Tasks :
          (eng_pc = "executor" /\ guard_log[t] # None) =>
              guard_log[t][1].exception # None

\* ------------------------------------------------------------------------
\* C12
\* ------------------------------------------------------------------------

\* What task t sees of the replay mode.
Observed(t) == <<is_replay_mode_active(t), get_replay_run_id(t)>>

\* In every step, the flag and run id seen by a task change only if that task
\* itself entered or left a scope.
NoLeakage ==
    [][\A u \in Tasks : scopes'[u] = scopes[u] => Observed(u)' = Observed(u)]_vars

RecordedEvents(s) == IF s < Len(ctx_run) THEN ctx_run[s + 1].events ELSE <<>>

CursorOf(s) == CursorGet(_event_cursors, s, 0)

\* C13: from a fresh or reset cursor, the k-th next_event(s) that returns an
\* event returns the k-th recorded event of s, with no skip and no repeat; once
\* all n events were returned every call returns None; the cursor of s stays
\* within 0..n; next_event on a step index that does not exist returns None.
C13_StrictOrder ==
    /\ \A s \in DOMAIN served :
          /\ Len(served[s]) <= Len(RecordedEvents(s))
          /\ served[s] = SubSeq(RecordedEvents(s), 1, Len(served[s]))
          /\ CursorOf(s) \in 0..Len(RecordedEvents(s))
          /\ CursorOf(s) = Len(served[s])
    /\ ctx_result.op = "next_event" =>
          LET s == ctx_result.step_idx[1]
          IN  /\ s >= Len(ctx_run) => ctx_result.outcome = Returned(None)
              /\ (s < Len(ctx_run) /\ ctx_result.outcome = Returned(None)) =>
                    served[s] = RecordedEvents(s)
              /\ (ctx_result.outcome.kind = "returned" /\ ctx_result.outcome.value # None) =>
                    ctx_result.outcome.value[1] = RecordedEvents(s)[Len(served[s])]

\* All three events of step 0 were returned in order and the next call
\* returned None.
C13_Witness ==
    /\ Len(RecordedEvents(0)) = 3
    /\ served[0] = RecordedEvents(0)
    /\ ctx_result.op = "next_event"
    /\ ctx_result.step_idx = Some(0)
    /\ ctx_result.outcome = Returned(None)

\* ------------------------------------------------------------------------
\* C14
\* ------------------------------------------------------------------------

\* C14: next_event(s, expected_type=t) raises ReplayOrderError exactly when the
\* event at the cursor of s exists and its type is not t; the cursor is then
\* unchanged, and a following next_event(s), with the recorded type or with no
\* type, returns that same event.
C14_OrderError ==
    (ctx_result.op = "next_event" /\ ctx_result.cursor # None) =>
        LET s == ctx_result.step_idx[1]
            c == ctx_result.cursor[1]
            t == ctx_result.arg
            mismatch == /\ c < Len(RecordedEvents(s))
                        /\ t # None
                        /\ RecordedEvents(s)[c + 1].type # t[1]
        IN  /\ mismatch <=> ctx_result.outcome.kind = "raised"
            /\ mismatch =>
                  LET event == RecordedEvents(s)[c + 1]
                  IN  /\ ctx_result.outcome.value.type = "ReplayOrderError"
                      /\ CursorOf(s) = c
                      /\ next_event(ctx_run, _event_cursors, s, None).outcome =
                             Returned(Some(event))
                      /\ next_event(ctx_run, _event_cursors, s, Some(event.type)).outcome =
                             Returned(Some(event))

\* next_event(0, "input") raised at the tool_call event, the second of step 0.
C14_Witness ==
    /\ ctx_result.op = "next_event"
    /\ ctx_result.step_idx = Some(0)
    /\ ctx_result.arg = Some("input")
    /\ ctx_result.cursor = Some(1)
    /\ ctx_result.outcome.kind = "raised"
    /\ RecordedEvents(0)[2].type = "tool_call"

\* ------------------------------------------------------------------------
\* C15
\* ------------------------------------------------------------------------

\* C15: no call of a ReplayContext (get_step, get_step_by_name, get_event,
\* get_events_by_type, iter_events, next_event, peek_event, reset_cursor), a
\* raising call included, changes the recorded run.
C15_RunUnchanged == [][ctx_run' = ctx_run]_vars

\* After events were served and a cursor was reset, a call raised.
C15_Witness ==
    /\ ctx_run # <<>>
    /\ served[0] # <<>>
    /\ Len(ctx_run) \in DOMAIN _event_cursors
    /\ ctx_result.outcome.kind = "raised"

\* ------------------------------------------------------------------------
\* C16
\* ------------------------------------------------------------------------

\* C16: for every policy, event type and payload, redact leaves the payload of
\* the caller structurally unchanged at every depth, also when rules mask, drop
\* or hash nested keys; what it returns is another value.
C16_InputUnchanged == [][red_payload' = red_payload]_vars

\* A call on a payload with a nested mapping, under a policy with a drop rule,
\* returned a value that differs from the payload.
C16_Witness ==
    /\ red_output # None
    /\ red_output[1] # red_payload
    /\ \E k \in 1..Len(red_payload.items) : red_payload.items[k][2].kind = "dict"
    /\ \E k \in 1..Len(red_rules) : red_rules[k].action = DROP

\* ------------------------------------------------------------------------
\* C17
\* ------------------------------------------------------------------------

\* p occurs in s when the case of the letters is ignored.
InIgnoringCase(p, s) ==
    \E k \in 0..(Len(s) - Len(p)) :
        \A j \in 1..Len(p) : LowerChar(p[j]) = LowerChar(s[k + j])

\* The rule fires on key k at dot-path p.
Fires(rule, k, p) ==
    /\ rule.key_pattern # None => InIgnoringCase(rule.key_pattern[1], k)
    /\ rule.path_pattern # None => InIgnoringCase(rule.path_pattern[1], p)

\* The action of the earliest rule that fires, "keep" if none does.
ActionAt(rules, k, p) ==
    LET firing == {n \in 1..Len(rules) : Fires(rules[n], k, p)}
    IN  IF firing = {} THEN "keep"
        ELSE rules[CHOOSE n \in firing : \A m \in firing : n <= m].action

DotPath(p, k) == IF p = <<>> THEN k ELSE p \o <<".">> \o k

\* The output is the input with, at every mapping reached through mappings and
\* the sequences of the given kinds, each key treated by the action of the
\* earliest rule that fires on it; containers of other kinds are not looked at.
RECURSIVE Redacted(_, _, _, _, _)
Redacted(rules, in, out, p, sequences) ==
    IF in.kind = "dict"
        THEN /\ out.kind = "dict"
             /\ Keys(out.items) \subseteq Keys(in.items)
             /\ \A n \in 1..Len(in.items) :
                   LET k == in.items[n][1]
                       v == in.items[n][2]
                       action == ActionAt(rules, k, DotPath(p, k))
                   IN  IF action = DROP THEN k \notin Keys(out.items)
                       ELSE /\ k \in Keys(out.items)
                            /\ CASE action = MASK -> DictGet(out.items, k) = REDACTED
                                 [] action = HASH ->
                                        DictGet(out.items, k) =
                                            VStr(<<"h", "a", "s", "h", ":">>
                                                 \o sha256_hex(PyRepr(v)))
                                 [] OTHER ->
                                        Redacted(rules, v, DictGet(out.items, k),
                                                 DotPath(p, k), sequences)
    ELSE IF in.kind \in sequences
        THEN /\ out.kind = in.kind
             /\ Len(out.items) = Len(in.items)
             /\ \A n \in 1..Len(in.items) :
                   Redacted(rules, in.items[n], out.items[n], p, sequences)
    ELSE IF in.kind \in {"list", "tuple"} THEN TRUE
    ELSE out = in

\* C17: for every key k reached at dot-path p, the action applied is that of
\* the earliest rule of the policy whose key_pattern (if present) is a
\* case-insensitive substring of k and whose path_pattern (if present) is a
\* case-insensitive substring of p; later rules have no effect; if no rule
\* matches, the value is kept and recursed into.
C17_FirstRuleWins ==
    red_output # None => Redacted(red_rules, red_payload, red_output[1], <<>>, {"list"})

\* A mask rule on "pw" and then a drop rule on "PW" both fire on the key "Pw";
\* the value was masked, not dropped.
C17_Witness ==
    /\ red_rules = <<RedactionRule(MASK, Some(<<"p", "w">>), None),
                     RedactionRule(DROP, Some(<<"P", "W">>), None)>>
    /\ red_payload = VDict(<<Item(<<"P", "w">>, S1)>>)
    /\ red_output = Some(VDict(<<Item(<<"P", "w">>, REDACTED)>>))

\* ------------------------------------------------------------------------
\* C18
\* ------------------------------------------------------------------------

\* C18: in the output of redact, for every mapping reachable from the root
\* through any nesting of mappings and sequences, each key on which a rule
\* fires is absent (drop), "[REDACTED]" (mask) or "hash:" and a SHA-256 digest
\* (hash); every key on which no rule fires is kept; sequences keep their
\* length and the order of their elements.
C18_RedactedAtEveryDepth ==
    red_output # None =>
        Redacted(red_rules, red_payload, red_output[1], <<>>, {"list", "tuple"})

\* ------------------------------------------------------------------------
\* C19
\* ------------------------------------------------------------------------

\* The calls of the given kinds that stored an event, in call order.
StoringCalls(vias) ==
    SelectSeq(calls, LAMBDA call : call.via \in vias /\ call.outcome.kind = "returned")

\* The policy of the recorder: the one given, else the default SAFE policy.
RecorderPolicy == IF policy_arg = None THEN DefaultRules ELSE policy_arg[1]

RECURSIVE HasTuple(_)
HasTuple(v) ==
    CASE v.kind = "tuple" -> TRUE
      [] v.kind = "list" -> \E k \in 1..Len(v.items) : HasTuple(v.items[k])
      [] v.kind = "dict" -> \E k \in 1..Len(v.items) : HasTuple(v.items[k][2])
      [] OTHER -> FALSE

\* C19: for every sequence of log_event calls, the payload persisted for each
\* event, and returned by get_events in log order, is
\* redaction_policy.redact(event_type, payload) under the policy of the
\* recorder (the default SAFE policy when none is given), not the raw payload;
\* the payload object of the caller is unchanged by the call.
C19_RecorderRedacts ==
    LET logged == StoringCalls({"log_event"})
        events == get_events(RecordingRunId)
    IN  /\ Len(db_events) = Len(logged)
        /\ Len(events) = Len(logged)
        /\ \A k \in 1..Len(logged) :
              LET expected == redact(RecorderPolicy, logged[k].type, logged[k].payload)
              IN  /\ db_events[k].payload = json_dumps(expected)
                  /\ events[k].event_id = k
                  /\ events[k].type = logged[k].type
                  /\ events[k].payload = JsonShape(expected)
                  /\ ~HasTuple(expected) => PyEq(events[k].payload, expected)
                  /\ logged[k].payload_after = logged[k].payload

\* Two events were logged under the default policy; what is stored for the
\* first, whose payload has keys of the SAFE policy, is not its raw payload.
C19_Witness ==
    /\ policy_arg = None
    /\ Len(db_events) = 2
    /\ Len(StoringCalls({"log_event"})) = 2
    /\ calls[1].payload # calls[2].payload
    /\ db_events[1].payload # json_dumps(calls[1].payload)
    /\ get_events(RecordingRunId)[1].payload =
           VDict(<<Item(<<"S", "E", "S", "S", "I", "O", "N">>, REDACTED), Item(<<"a", "p", "i", "_", "k", "e", "y">>, REDACTED), Item(<<"u", "r", "l">>, S2)>>)

\* ------------------------------------------------------------------------
\* C20
\* ------------------------------------------------------------------------

\* C20: on the recording path every event payload handed to the store boundary
\* is redacted before it is persisted, through RunRecorder.log_event as well as
\* through Tracer.record_event / SQLiteStore.append_event: what each store
\* holds for an event is the redaction of the payload that was handed in.
C20_EveryPathRedacts ==
    LET logged == StoringCalls({"log_event"})
        appended == StoringCalls({"record_event", "append_event"})
    IN  /\ Len(db_events) = Len(logged)
        /\ \A k \in 1..Len(logged) :
              db_events[k].payload =
                  json_dumps(redact(RecorderPolicy, logged[k].type, logged[k].payload))
        /\ Len(store_events) = Len(appended)
        /\ \A k \in 1..Len(appended) :
              store_events[k].payload_json =
                  json_dumps(redact(DefaultRules, appended[k].type, appended[k].payload))

\* ------------------------------------------------------------------------
\* C21, C22: compare_loaded_runs
\* ------------------------------------------------------------------------
Compared == call_fn = "compare_loaded_runs" /\ call_out # None

\* The original and the replay differ at position k (0-based): the two steps
\* do not match, or only one of the runs has a step there.
StepsDifferAt(original, replay, ignore_timestamps, k) ==
    IF k < Len(original.steps) /\ k < Len(replay.steps)
        THEN ~compare_steps(At(original.steps, k), At(replay.steps, k), ignore_timestamps)[1]
    ELSE k < Len(original.steps) \/ k < Len(replay.steps)

DifferingPositions(original, replay, ignore_timestamps) ==
    {k \in 0..(Max(Len(original.steps), Len(replay.steps)) - 1) :
        StepsDifferAt(original, replay, ignore_timestamps, k)}

\* C21: whenever compare_loaded_runs returns DIVERGED, the divergence is at
\* the smallest position at which original and replay differ, every earlier
\* step is reported as matched in step_results, and steps_compared is that
\* position + 1.
C21_FirstDivergenceWins ==
    (Compared /\ call_out[1].status = STATUS_DIVERGED) =>
        LET differing == DifferingPositions(call_args.original, call_args.replay,
                                            call_args.ignore_timestamps)
            out == call_out[1]
        IN  /\ differing # {}
            /\ out.divergence # None
            /\ out.divergence[1].step_idx = LeastOf(differing)
            /\ out.steps_compared = LeastOf(differing) + 1
            /\ \A k \in 0..(LeastOf(differing) - 1) :
                    /\ k < Len(out.step_results)
                    /\ At(out.step_results, k).step_idx = k
                    /\ At(out.step_results, k).matched

\* Every step of the replay matches the original step at its position.
ReplayIsMatchingPrefix(original, replay, ignore_timestamps) ==
    /\ Len(replay.steps) < Len(original.steps)
    /\ \A k \in 0..(Len(replay.steps) - 1) :
           compare_steps(At(original.steps, k), At(replay.steps, k), ignore_timestamps)[1]

\* C22: compare_loaded_runs returns INCOMPLETE iff the replay has strictly
\* fewer steps than the original and each of its steps matches the original
\* step at the same position; the INCOMPLETE result has no divergence and
\* steps_compared equal to the replay's step count; a mismatch in a common
\* step gives DIVERGED.
C22_IncompleteIffMatchingPrefix ==
    Compared =>
        LET original == call_args.original
            replay == call_args.replay
            ignore_timestamps == call_args.ignore_timestamps
            out == call_out[1]
        IN  /\ (out.status = STATUS_INCOMPLETE)
                   <=> ReplayIsMatchingPrefix(original, replay, ignore_timestamps)
            /\ (out.status = STATUS_INCOMPLETE) =>
                   /\ out.divergence = None
                   /\ out.steps_compared = Len(replay.steps)
            /\ (\E k \in 0..(Min(Len(original.steps), Len(replay.steps)) - 1) :
                    StepsDifferAt(original, replay, ignore_timestamps, k))
                   => out.status = STATUS_DIVERGED

\* An INCOMPLETE result for a replay that has steps.
C22_Witness ==
    /\ Compared
    /\ call_out[1].status = STATUS_INCOMPLETE
    /\ Len(call_args.replay.steps) >= 1
    /\ call_out[1].steps_compared = Len(call_args.replay.steps)

\* ------------------------------------------------------------------------
\* C23, C24: ReplayEngine.replay with an executor
\* ------------------------------------------------------------------------
\* replay returned a ReplayResult from _execute_replay.
ExecutedResult == eng_executor /\ replay_result # None /\ replay_result[1].kind = "returned"

EngineOut == replay_result[1].value

\* The step the executor returned for the recorded step at step_idx.
ReturnedStep == Step(step_idx, StepTable[replayed_step[1]].name, StepTable[replayed_step[1]].events)

\* The executor is called for steps 0, 1, 2, ... in this order, once each.
CalledOncePerStepInOrder ==
    /\ \A k \in 1..Len(executor_calls) : executor_calls[k].step_idx = k - 1
    /\ eng_run # None => Len(executor_calls) <= Len(recorded_steps)

\* C23: replay with an executor calls it once per recorded step in increasing
\* step order and halts at the first returned step that does not match the
\* recording: no later call, DIVERGED with that step's divergence and
\* steps_compared = position + 1; if every step matches, MATCH with
\* steps_compared = number of recorded steps.
C23_HaltAtFirstMismatch ==
    /\ []CalledOncePerStepInOrder
    /\ []((ExecutedResult /\ EngineOut.status = STATUS_DIVERGED) =>
            /\ EngineOut.steps_compared = Len(executor_calls)
            /\ Len(EngineOut.step_results) = EngineOut.steps_compared
            /\ \A k \in 1..(EngineOut.steps_compared - 1) : EngineOut.step_results[k].matched
            /\ ~EngineOut.step_results[EngineOut.steps_compared].matched
            /\ EngineOut.divergence = EngineOut.step_results[EngineOut.steps_compared].divergence
            /\ EngineOut.divergence # None
            /\ EngineOut.divergence[1].step_idx = EngineOut.steps_compared - 1)
    /\ []((ExecutedResult /\ EngineOut.status = STATUS_MATCH) =>
            /\ EngineOut.steps_compared = Len(recorded_steps)
            /\ Len(executor_calls) = Len(recorded_steps)
            /\ \A k \in 1..Len(EngineOut.step_results) : EngineOut.step_results[k].matched)
    /\ [][eng_pc = "compare" =>
            LET compared == compare_steps(At(recorded_steps, step_idx), ReturnedStep,
                                          eng_policy.ignore_timestamps)
            IN  IF compared[1]
                    THEN /\ eng_pc' = "replay"
                         /\ step_idx' = step_idx + 1
                         /\ replay_result' = None
                ELSE /\ eng_pc' = "done"
                     /\ executor_calls' = executor_calls
                     /\ replay_result'[1].kind = "returned"
                     /\ replay_result'[1].value.status = STATUS_DIVERGED
                     /\ replay_result'[1].value.divergence = compared[2]
                     /\ replay_result'[1].value.steps_compared = step_idx + 1]_vars

\* The executor's answer for step 0 of a two-step recording did not match:
\* replay returned DIVERGED and the executor was never called for step 1.
C23_Witness ==
    /\ ExecutedResult
    /\ replay_result[1].value.status = STATUS_DIVERGED
    /\ replay_result[1].value.steps_compared = 1
    /\ Len(recorded_steps) = 2
    /\ Len(executor_calls) = 1

\* C24: an exception raised by the executor at recorded step k is not
\* propagated: replay returns ERROR with no divergence, steps_compared = k,
\* an error_message holding the step index and the exception text, and the
\* executor is not called for a later step.
C24_ExecutorErrorContained ==
    /\ []((ExecutedResult /\ EngineOut.status = STATUS_ERROR) =>
            /\ EngineOut.divergence = None
            /\ Len(executor_calls) = EngineOut.steps_compared + 1
            /\ executor_calls[Len(executor_calls)].step_idx = EngineOut.steps_compared)
    /\ []((eng_executor /\ replay_result # None /\ replay_result[1].kind = "raised") =>
            replay_result[1].value.type = "MissingArtifactError")
    /\ [][\A t \in Tasks :
            (eng_pc = "executor" /\ raised[t] # None) =>
                /\ eng_pc' = "done"
                /\ raised'[t] = None
                /\ executor_calls' = executor_calls
                /\ replay_result'[1].kind = "returned"
                /\ LET out == replay_result'[1].value
                   IN  /\ out.status = STATUS_ERROR
                       /\ out.divergence = None
                       /\ out.steps_compared = step_idx
                       /\ out.error_message # None
                       /\ IsSubstring(IntChars(step_idx), out.error_message[1])
                       /\ IsSubstring(ExceptionText(raised[t][1]), out.error_message[1])]_vars

\* The executor raised at step 0 of a two-step recording; replay returned
\* ERROR with steps_compared = 0 after one executor call.
C24_Witness ==
    /\ ExecutedResult
    /\ replay_result[1].value.status = STATUS_ERROR
    /\ replay_result[1].value.steps_compared = 0
    /\ replay_result[1].value.error_message # None
    /\ Len(recorded_steps) = 2
    /\ Len(executor_calls) = 1
    /\ \A t \in Tasks : raised[t] = None

\* ------------------------------------------------------------------------
\* C25, C26: ReplayEngine.replay without an executor
\* ------------------------------------------------------------------------
\* replay(run_id, policy=...) of a stored run, no executor, has ended.
Validated == ~eng_executor /\ eng_run # None /\ replay_result # None

\* The step lacks an artifact: it has no events, a tool_call event of it has
\* no "result" field, or an llm_call / output event of it has an empty payload.
LacksArtifact(step) ==
    \/ step.events = <<>>
    \/ \E k \in 1..Len(step.events) :
          \/ /\ step.events[k].type = "tool_call"
             /\ ResultKey \notin Keys(step.events[k].payload.items)
          \/ /\ step.events[k].type \in {"llm_call", "output"}
             /\ step.events[k].payload.items = <<>>

OffendingSteps == {k \in 0..(Len(recorded_steps) - 1) : LacksArtifact(At(recorded_steps, k))}

\* C25: without an executor and with fail_on_missing_artifact set (all
\* comparisons on, as in the default policy), replay raises
\* MissingArtifactError iff the run has no steps or some step lacks an
\* artifact; the error carries the run id and the index of the first such
\* step; otherwise replay returns MATCH with steps_compared = number of steps
\* and total_events_compared = number of events.
C25_MissingArtifactRaised ==
    (/\ Validated
     /\ eng_policy.fail_on_missing_artifact
     /\ eng_policy.compare_tool_outputs
     /\ eng_policy.compare_llm_outputs) =>
        IF recorded_steps = <<>> \/ OffendingSteps # {}
            THEN /\ replay_result[1].kind = "raised"
                 /\ replay_result[1].value.type = "MissingArtifactError"
                 /\ replay_result[1].value.run_id = EngineRunId
                 /\ replay_result[1].value.step_idx
                        = IF recorded_steps = <<>> THEN None ELSE Some(LeastOf(OffendingSteps))
        ELSE /\ replay_result[1].kind = "returned"
             /\ replay_result[1].value.status = STATUS_MATCH
             /\ replay_result[1].value.steps_compared = Len(recorded_steps)
             /\ replay_result[1].value.total_events_compared = SumEvents(recorded_steps)
             /\ replay_result[1].value.divergence = None

\* A two-step run whose second step is the first to lack an artifact: the
\* error names step 1.
C25_Witness ==
    /\ Validated
    /\ eng_policy = PolicyDefault
    /\ Len(recorded_steps) = 2
    /\ ~LacksArtifact(At(recorded_steps, 0))
    /\ LacksArtifact(At(recorded_steps, 1))
    /\ replay_result[1].kind = "raised"
    /\ replay_result[1].value.step_idx = Some(1)

\* C26: under a policy with fail_on_missing_artifact = false, replay never
\* raises MissingArtifactError, and without an executor every absence (no
\* such run, no steps, a step without events, a tool call without result, an
\* empty model payload) ends in a MATCH result.
C26_LenientNeverRaises ==
    (~eng_policy.fail_on_missing_artifact /\ replay_result # None) =>
        /\ ~(/\ replay_result[1].kind = "raised"
              /\ replay_result[1].value.type = "MissingArtifactError")
        /\ ~eng_executor =>
              /\ replay_result[1].kind = "returned"
              /\ replay_result[1].value.status = STATUS_MATCH

\* ------------------------------------------------------------------------
\* C27: metadata never enters comparisons
\* ------------------------------------------------------------------------
\* C27: two pairs of runs that differ only in metadata (Event.created_at,
\* event_id, run_id; Step.started_at, ended_at, step_id, run_id) get the same
\* find_first_divergence result (status, indices, hashes, diffs) and the same
\* compare_steps and compare_events outcomes under ignore_timestamps = True.
C27_MetadataIgnored ==
    (call_fn = "find_first_divergence" /\ call_out # None) =>
        call_out[1].first = call_out[1].second

\* Two runs that diverge in an output, recorded with different metadata on
\* each side.
C27_Witness ==
    /\ call_fn = "find_first_divergence"
    /\ call_out # None
    /\ call_args.stamp_a # Stamp0
    /\ call_args.stamp_b = Stamp0
    /\ call_out[1].second.divergence.status = OUTPUT_DIVERGENCE
    /\ \E k \in 1..Len(call_out[1].second.steps) : ~call_out[1].second.steps[k][1]

\* ------------------------------------------------------------------------
\* C28: a reported divergence comes with its field-level diff
\* ------------------------------------------------------------------------
\* C28: when find_first_divergence returns input_divergence with show in
\* {input, both}, input_diff is a non-empty list of operations; when it
\* returns output_divergence with show in {output, both}, output_diff is a
\* non-empty list; with show = input the output_diff is null and with
\* show = output the input_diff is null.
C28_DivergenceHasDiff ==
    (pc = "done" /\ result # None) =>
        /\ (Res.status = INPUT_DIVERGENCE /\ show \in {"input", "both"}) =>
               /\ Res.input_diff # None
               /\ Res.input_diff[1] # <<>>
        /\ (Res.status = OUTPUT_DIVERGENCE /\ show \in {"output", "both"}) =>
               /\ Res.output_diff # None
               /\ Res.output_diff[1] # <<>>
        /\ show = "input" => Res.output_diff = None
        /\ show = "output" => Res.input_diff = None

\* ------------------------------------------------------------------------
\* C29: canon is injective up to canonical equivalence
\* ------------------------------------------------------------------------
\* The kind of a value: lists and tuples are both sequences.
KindOf(v) == IF v.kind \in {"list", "tuple"} THEN "sequence" ELSE v.kind

\* Strings equal up to NFC and newline normalisation.
SameText(s, t) == ReplaceCr(ReplaceCrLf(Nfc(s))) = ReplaceCr(ReplaceCrLf(Nfc(t)))

\* The canonical equivalence: the same kind, and equal up to mapping key
\* order, NFC and newline normalisation of strings, and -0.0 vs 0.0.
RECURSIVE CanonEquivalent(_, _)
CanonEquivalent(x, y) ==
    /\ KindOf(x) = KindOf(y)
    /\ CASE x.kind = "null" -> TRUE
         [] x.kind = "bool" -> x.b = y.b
         [] x.kind = "int" -> x.n = y.n
         [] x.kind = "float" -> x.f = y.f \/ {x.f, y.f} = {"0.0", "-0.0"}
         [] x.kind = "str" -> SameText(x.s, y.s)
         [] x.kind = "bytes" -> x.d = y.d
         [] x.kind = "dict" ->
               /\ Keys(x.items) = Keys(y.items)
               /\ \A key \in Keys(x.items) :
                      CanonEquivalent(DictGet(x.items, key), DictGet(y.items, key))
         [] OTHER ->
               /\ Len(x.items) = Len(y.items)
               /\ \A k \in 1..Len(x.items) : CanonEquivalent(x.items[k], y.items[k])

\* C29: canon(x) == canon(y) iff x and y are canonically equivalent; values
\* of different kinds (boolean vs integer, string vs number or null, string
\* vs mapping or sequence, byte sequence vs mapping) never canonicalise to
\* the same bytes.
C29_CanonInjective ==
    (call_fn = "canon" /\ call_out # None) =>
        /\ (call_out[1].x = call_out[1].y) <=> CanonEquivalent(call_args.x, call_args.y)
        /\ KindOf(call_args.x) # KindOf(call_args.y) => call_out[1].x # call_out[1].y

\* ------------------------------------------------------------------------
\* C30: the pair resync selects
\* ------------------------------------------------------------------------
ResyncA == StepsOf(call_args.run_a)
ResyncB == StepsOf(call_args.run_b)
ResyncOut == call_out[1]

\* find_first_divergence returned for a mismatch inside both runs.
MismatchReturned ==
    /\ call_fn = "find_first_divergence" /\ call_out # None
    /\ ResyncOut.idx_a # None /\ ResyncOut.idx_b # None

\* The position of the mismatch.
MismatchAt == ResyncOut.idx_a[1]

\* The pairs <<da, db>> of offsets inside the window and inside the runs,
\* not both zero, whose steps have the same signature.
ResyncPairs ==
    {d \in (0..(Min(call_args.window, Len(ResyncA) - MismatchAt) - 1))
               \X (0..(Min(call_args.window, Len(ResyncB) - MismatchAt) - 1)) :
        /\ d[1] + d[2] >= 1
        /\ _step_signature(At(ResyncA, MismatchAt + d[1]))
              = _step_signature(At(ResyncB, MismatchAt + d[2]))}

\* The pair with the smallest da + db and, among those, the smallest da.
SelectedPair ==
    CHOOSE d \in ResyncPairs :
        \A e \in ResyncPairs :
            \/ d[1] + d[2] < e[1] + e[2]
            \/ (d[1] + d[2] = e[1] + e[2] /\ d[1] <= e[1])

StepLocalStatus ==
    _classify_step_divergence(At(ResyncA, MismatchAt), At(ResyncB, MismatchAt))

\* C30: on a mismatch at i, resync selects among the pairs (da, db) with
\* 0 <= da, db < window, da + db >= 1, both positions inside their runs and
\* equal signatures the one with the smallest da + db, then the smallest da;
\* the result is missing_steps if db = 0, extra_steps if da = 0, and the
\* step-local classification at i if both are positive or there is no such
\* pair; with window <= 1 the classification is always the step-local one.
C30_ResyncSelection ==
    MismatchReturned =>
        /\ ResyncOut.idx_b = Some(MismatchAt)
        /\ \A k \in 0..(MismatchAt - 1) :
              _classify_step_divergence(At(ResyncA, k), At(ResyncB, k)) = EXACT_MATCH
        /\ StepLocalStatus # EXACT_MATCH
        /\ ResyncOut.status =
              IF ResyncPairs # {} /\ SelectedPair[2] = 0 THEN MISSING_STEPS
              ELSE IF ResyncPairs # {} /\ SelectedPair[1] = 0 THEN EXTRA_STEPS
              ELSE StepLocalStatus
        /\ (ResyncOut.status = MISSING_STEPS) =>
              ResyncOut.explanation =
                  _make_explanation(MISSING_STEPS, Some(At(ResyncA, MismatchAt)),
                                    Some(At(ResyncB, MismatchAt)), Some(MismatchAt),
                                    Some(MismatchAt), SelectedPair[1], 0)
        /\ (ResyncOut.status = EXTRA_STEPS) =>
              ResyncOut.explanation =
                  _make_explanation(EXTRA_STEPS, Some(At(ResyncA, MismatchAt)),
                                    Some(At(ResyncB, MismatchAt)), Some(MismatchAt),
                                    Some(MismatchAt), 0, SelectedPair[2])
        /\ (call_args.window <= 1) => (ResyncOut.status = StepLocalStatus)

\* Two pairs at the same distance match, (0, 1) and (1, 0): the one with the
\* smaller da is selected and the result is extra_steps.
C30_Witness ==
    /\ MismatchReturned
    /\ {<<0, 1>>, <<1, 0>>} \subseteq ResyncPairs
    /\ SelectedPair = <<0, 1>>
    /\ ResyncOut.status = EXTRA_STEPS

\* ------------------------------------------------------------------------
\* C31: compare_steps reports the first difference of two steps
\* ------------------------------------------------------------------------
StepsCompared == call_fn = "compare_steps" /\ call_out # None
StepsMatched == call_out[1][1]
StepsDivergence == call_out[1][2]

\* The event pair at position k (0-based) differs in type or in payload.
EventPairDiffers(k) ==
    \/ call_args.expected.events[k + 1].type # call_args.actual.events[k + 1].type
    \/ deep_compare(call_args.expected.events[k + 1].payload,
                    call_args.actual.events[k + 1].payload, <<"payload">>,
                    IF call_args.ignore_timestamps THEN TimestampFields ELSE {}) # <<>>

SameNames == call_args.expected.name = call_args.actual.name
SameEventCounts == Len(call_args.expected.events) = Len(call_args.actual.events)
DifferingPairs == {k \in 0..(Len(call_args.expected.events) - 1) : EventPairDiffers(k)}

\* C31: compare_steps returns (True, None) iff the names are equal, the event
\* counts are equal and no event pair differs; otherwise (False, d) with
\* d step_name_mismatch if the names differ, else event_count_mismatch if the
\* counts differ, else event_payload_mismatch at the smallest position of a
\* differing event pair.
C31_CompareStepsFirstDifference ==
    StepsCompared =>
        /\ StepsMatched <=> (SameNames /\ SameEventCounts /\ DifferingPairs = {})
        /\ StepsMatched => StepsDivergence = None
        /\ ~StepsMatched =>
              /\ StepsDivergence # None
              /\ StepsDivergence[1].divergence_type =
                    IF ~SameNames THEN "step_name_mismatch"
                    ELSE IF ~SameEventCounts THEN "event_count_mismatch"
                    ELSE "event_payload_mismatch"
              /\ StepsDivergence[1].event_idx =
                    IF SameNames /\ SameEventCounts
                        THEN Some(CHOOSE k \in DifferingPairs : \A j \in DifferingPairs : k <= j)
                    ELSE None

\* Two event pairs differ and the first one is reported.
C31_Witness ==
    /\ StepsCompared
    /\ SameNames /\ SameEventCounts
    /\ DifferingPairs = {0, 1}
    /\ StepsDivergence = Some(DivergencePoint(
            0, "gen", Some(0), "event_payload_mismatch",
            compare_events(call_args.expected.events[1], call_args.actual.events[1],
                           call_args.ignore_timestamps)))

\* ------------------------------------------------------------------------
\* C32: deep_compare is empty exactly on structurally equal values
\* ------------------------------------------------------------------------
DeepCompared == call_fn = "deep_compare" /\ call_out # None
DeepDiffs == call_out[1]

\* Structural equality with exactly equal kinds, the mapping keys named in
\* ignored removed at every depth.
RECURSIVE StructEq(_, _, _)
StructEq(a, b, ignored) ==
    /\ a.kind = b.kind
    /\ CASE a.kind = "dict" ->
               /\ Keys(a.items) \ ignored = Keys(b.items) \ ignored
               /\ \A key \in Keys(a.items) \ ignored :
                     StructEq(DictGet(a.items, key), DictGet(b.items, key), ignored)
          [] a.kind \in {"list", "tuple"} ->
               /\ Len(a.items) = Len(b.items)
               /\ \A k \in 1..Len(a.items) : StructEq(a.items[k], b.items[k], ignored)
          [] OTHER -> a = b

\* The keys one side has and the other lacks, the ignored ones left out.
OnlyIn(a, b, ignored) == (Keys(a.items) \ Keys(b.items)) \ ignored

DiffsAt(diffs, path) == {k \in 1..Len(diffs) : diffs[k].path = path}

BothKind(kind) == call_args.expected.kind = kind /\ call_args.actual.kind = kind

MissingKeyDiffs ==
    BothKind("dict") =>
        /\ \A key \in OnlyIn(call_args.expected, call_args.actual, call_args.ignore_fields) :
              \E k \in 1..Len(DeepDiffs) :
                  /\ DiffsAt(DeepDiffs, key) = {k}
                  /\ DeepDiffs[k] =
                        FieldDiff(key, DictGet(call_args.expected.items, key), MissingTag)
        /\ \A key \in OnlyIn(call_args.actual, call_args.expected, call_args.ignore_fields) :
              \E k \in 1..Len(DeepDiffs) :
                  /\ DiffsAt(DeepDiffs, key) = {k}
                  /\ DeepDiffs[k] =
                        FieldDiff(key, MissingTag, DictGet(call_args.actual.items, key))

PrefixDiffs ==
    Concat([k \in 1..Min(Len(call_args.expected.items), Len(call_args.actual.items)) |->
               deep_compare(call_args.expected.items[k], call_args.actual.items[k],
                            IndexPath(<<>>, k - 1), call_args.ignore_fields)])

LengthDiffs ==
    (BothKind("list") /\ Len(call_args.expected.items) # Len(call_args.actual.items)) =>
        DeepDiffs = <<FieldDiff(<<"(length)">>, VInt(Len(call_args.expected.items)),
                                VInt(Len(call_args.actual.items)))>> \o PrefixDiffs

EmptyIffStructEq ==
    (DeepDiffs = <<>>) <=>
        StructEq(call_args.expected, call_args.actual, call_args.ignore_fields)

\* C32: deep_compare(expected, actual, ignore_fields) is empty iff expected
\* and actual are structurally equal with exactly equal kinds after removing
\* the ignored keys at every depth; a key on one side only yields one diff with
\* "<missing>", and lists of different length yield one (length) diff and the
\* diffs of the common prefix.
C32_DeepCompareExact == DeepCompared => (EmptyIffStructEq /\ MissingKeyDiffs /\ LengthDiffs)

\* ------------------------------------------------------------------------
\* C33: json_diff on values of different kinds
\* ------------------------------------------------------------------------
JsonDiffed == call_fn = "json_diff" /\ call_out # None
JsonOps == call_out[1]

\* C33: when old and new are of different kinds json_diff emits the single
\* replace of the whole value, except for an integer and a float, which give no
\* operation when numerically equal and the replace otherwise; a boolean and
\* an integer, and null and anything else, give the replace.
C33_KindMismatchReplaces ==
    (JsonDiffed /\ call_args.old.kind # call_args.new.kind) =>
        JsonOps = IF /\ {call_args.old.kind, call_args.new.kind} = {"int", "float"}
                     /\ NumEq(call_args.old, call_args.new)
                      THEN <<>>
                  ELSE <<OpReplace(<<"$">>, call_args.old, call_args.new)>>

\* ------------------------------------------------------------------------
\* C34: json_diff(x, x) and the order of the operations
\* ------------------------------------------------------------------------
HasPrefix(path, pre) == Len(path) >= Len(pre) /\ SubSeq(path, 1, Len(pre)) = pre

\* path is the path of the child at pre or of a node below it.
Below(path, pre) ==
    /\ HasPrefix(path, pre)
    /\ Len(path) > Len(pre) => path[Len(pre) + 1] \in {".", "["}

BothKeys == Keys(call_args.old.items) \cup Keys(call_args.new.items)
KeyOfOp(o) == CHOOSE key \in BothKeys : Below(o.path, KeyPath(<<"$">>, key))
KeyGroup(key) ==
    IF key \notin Keys(call_args.new.items) THEN 0
    ELSE IF key \notin Keys(call_args.old.items) THEN 1
    ELSE 2

\* Removes, then adds, then the operations of the common keys, each group in
\* ascending key order, one operation per removed and per added key.
MappingOrder ==
    /\ \A k \in 1..Len(JsonOps) : \E key \in BothKeys : Below(JsonOps[k].path, KeyPath(<<"$">>, key))
    /\ \A k \in 1..Len(JsonOps) :
          /\ KeyGroup(KeyOfOp(JsonOps[k])) = 0 =>
                JsonOps[k] = OpRemove(KeyPath(<<"$">>, KeyOfOp(JsonOps[k])),
                                      DictGet(call_args.old.items, KeyOfOp(JsonOps[k])))
          /\ KeyGroup(KeyOfOp(JsonOps[k])) = 1 =>
                JsonOps[k] = OpAdd(KeyPath(<<"$">>, KeyOfOp(JsonOps[k])),
                                   DictGet(call_args.new.items, KeyOfOp(JsonOps[k])))
    /\ \A k \in 1..(Len(JsonOps) - 1) :
          \/ KeyGroup(KeyOfOp(JsonOps[k])) < KeyGroup(KeyOfOp(JsonOps[k + 1]))
          \/ /\ KeyGroup(KeyOfOp(JsonOps[k])) = KeyGroup(KeyOfOp(JsonOps[k + 1]))
             /\ \/ StrLess(KeyOfOp(JsonOps[k]), KeyOfOp(JsonOps[k + 1]))
                \/ /\ KeyOfOp(JsonOps[k]) = KeyOfOp(JsonOps[k + 1])
                   /\ KeyGroup(KeyOfOp(JsonOps[k])) = 2
    /\ \A key \in {x \in BothKeys : KeyGroup(x) < 2} :
          \E k \in 1..Len(JsonOps) : KeyOfOp(JsonOps[k]) = key

IndexOfOp(o) ==
    CHOOSE k \in 0..Max(Len(call_args.old.items), Len(call_args.new.items)) :
        Below(o.path, IndexPath(<<"$">>, k))
CommonLen == Min(Len(call_args.old.items), Len(call_args.new.items))

\* The operations of the common indices in ascending order, then one remove
\* (old longer) or add (new longer) per trailing index, ascending.
SequenceOrder ==
    /\ \A k \in 1..Len(JsonOps) :
          \E n \in 0..(Max(Len(call_args.old.items), Len(call_args.new.items)) - 1) :
              Below(JsonOps[k].path, IndexPath(<<"$">>, n))
    /\ \A k \in 1..(Len(JsonOps) - 1) :
          \/ IndexOfOp(JsonOps[k]) < IndexOfOp(JsonOps[k + 1])
          \/ /\ IndexOfOp(JsonOps[k]) = IndexOfOp(JsonOps[k + 1])
             /\ IndexOfOp(JsonOps[k]) < CommonLen
    /\ \A n \in CommonLen..(Len(call_args.old.items) - 1) :
          \E k \in 1..Len(JsonOps) :
              JsonOps[k] = OpRemove(IndexPath(<<"$">>, n), call_args.old.items[n + 1])
    /\ \A n \in CommonLen..(Len(call_args.new.items) - 1) :
          \E k \in 1..Len(JsonOps) :
              JsonOps[k] = OpAdd(IndexPath(<<"$">>, n), call_args.new.items[n + 1])

SameKindOf(kind) == call_args.old.kind = kind /\ call_args.new.kind = kind

OperationOrder ==
    /\ SameKindOf("dict") => MappingOrder
    /\ SameKindOf("list") => SequenceOrder

\* C34: json_diff(x, x) is empty for every x, and the operations come in a
\* fixed order: at a mapping the removes (ascending key), then the adds
\* (ascending key), then the operations of the common keys (ascending key); at
\* a sequence the operations of the common indices in ascending order, then
\* the trailing removes or adds in ascending index order.
C34_SelfDiffEmptyAndOrdered ==
    JsonDiffed =>
        /\ (call_args.old = call_args.new) => (JsonOps = <<>>)
        /\ OperationOrder

\* ------------------------------------------------------------------------
\* C35: the cursors of a ReplayContext are per-step and independent
\* ------------------------------------------------------------------------
CursorSteps == 0..MaxContextSteps

\* The cursor of step s after the call.
CursorAfter(s) == CursorGet(_event_cursors', s, 0)

\* The call that was just made.
Called(op) == ctx_result'.op = op
CalledStep == ctx_result'.step_idx[1]

PeekChangesNothing ==
    Called("peek_event") =>
        /\ \A s \in CursorSteps : CursorAfter(s) = CursorOf(s)
        /\ _step_cursor' = _step_cursor
        /\ ctx_result'.outcome =
              Returned(next_event(ctx_run', _event_cursors', CalledStep, None).outcome.value)

\* next_event(s) without expected_type right after peek_event(s) returns the
\* event peek_event returned.
NextAfterPeek ==
    (/\ ctx_result.op = "peek_event" /\ Called("next_event")
     /\ ctx_result'.step_idx = ctx_result.step_idx /\ ctx_result'.arg = None) =>
        ctx_result'.outcome = ctx_result.outcome

NextMovesOwnCursor ==
    Called("next_event") =>
        \A s \in CursorSteps \ {CalledStep} : CursorAfter(s) = CursorOf(s)

ResetOne ==
    (Called("reset_cursor") /\ ctx_result'.step_idx # None) =>
        /\ CursorAfter(CalledStep) = 0
        /\ \A s \in CursorSteps \ {CalledStep} : CursorAfter(s) = CursorOf(s)

ResetAll ==
    (Called("reset_cursor") /\ ctx_result'.step_idx = None) =>
        \A s \in CursorSteps : CursorAfter(s) = 0

\* C35: peek_event(s) changes no cursor and returns the event the next
\* next_event(s) without expected_type returns; next_event(s) changes at most
\* the cursor of s; reset_cursor(s) sets the cursor of s to 0 and no other;
\* reset_cursor() sets every cursor to 0.
C35_CursorsIndependent ==
    [][PeekChangesNothing /\ NextAfterPeek /\ NextMovesOwnCursor /\ ResetOne /\ ResetAll]_vars

\* reset_cursor(0) was called while the cursor of step 1 had advanced: the
\* cursor of step 0 is 0 and that of step 1 is kept.
C35_Witness ==
    /\ ctx_result.op = "reset_cursor" /\ ctx_result.step_idx = Some(0)
    /\ CursorOf(0) = 0
    /\ CursorOf(1) = 2

\* ------------------------------------------------------------------------
\* C36: Tracer step scopes
\* ------------------------------------------------------------------------
\* The index of the innermost open step, None if no step is open.
InnermostOf(opened) == IF opened = <<>> THEN None ELSE Some(opened[Len(opened)].idx)

\* The steps carry 0, 1, 2, ... in order of entry, and the active step is the
\* innermost open one.
StepIndicesInOrder ==
    /\ \A k \in 1..Len(store_steps) : store_steps[k].idx = k - 1
    /\ _next_step_idx = Len(store_steps)
    /\ \A k \in 1..Len(open_scopes) : \A j \in 1..(k - 1) : open_scopes[j].idx < open_scopes[k].idx
    /\ _active_step_idx = InnermostOf(open_scopes)

StepEntered == Len(open_scopes') = Len(open_scopes) + 1
StepExited == Len(open_scopes') = Len(open_scopes) - 1
EventRecorded == Len(calls') = Len(calls) + 1 /\ calls'[Len(calls')].via = "record_event"

EntryTakesNextIndex ==
    StepEntered =>
        /\ open_scopes'[Len(open_scopes')].idx = Len(store_steps)
        /\ _active_step_idx' = Some(Len(store_steps))
        /\ Len(store_steps') = Len(store_steps) + 1

ExitRestoresEnclosing ==
    StepExited =>
        /\ open_scopes' = SubSeq(open_scopes, 1, Len(open_scopes) - 1)
        /\ _active_step_idx' = InnermostOf(open_scopes')

EventUnderInnermost ==
    EventRecorded =>
        IF open_scopes = <<>>
            THEN /\ calls'[Len(calls')].outcome = Raised("RuntimeError")
                 /\ store_events' = store_events
        ELSE /\ calls'[Len(calls')].outcome.kind = "returned"
             /\ Len(store_events') = Len(store_events) + 1
             /\ SubSeq(store_events', 1, Len(store_events)) = store_events
             /\ store_events'[Len(store_events')].step_idx = open_scopes[Len(open_scopes)].idx

\* C36: for properly nested step scopes and record_event calls, the steps get
\* the indices 0, 1, 2, ... in order of entry, each once; an event is stored
\* under the innermost open step; when a nested step exits the enclosing step
\* is the active step again; record_event with no open step raises
\* RuntimeError and stores nothing.
C36_StepScopes ==
    /\ []StepIndicesInOrder
    /\ [][EntryTakesNextIndex /\ ExitRestoresEnclosing /\ EventUnderInnermost]_vars

\* Inside step 0 an event was recorded in the nested step 1 and, after its
\* exit, another one in step 0.
C36_Witness ==
    /\ Len(open_scopes) = 1 /\ _next_step_idx = 2
    /\ _active_step_idx = Some(0)
    /\ Len(store_events) = 2
    /\ store_events[1].step_idx = 1 /\ store_events[2].step_idx = 0
    /\ \A k \in 1..Len(calls) : calls[k].via = "record_event"

\* ------------------------------------------------------------------------
\* C37: last_equal_idx
\* ------------------------------------------------------------------------
\* The reported divergence position: idx_a or idx_b, whichever is non-null.
DivergencePosition == IF Res.idx_a # None THEN Res.idx_a[1] ELSE Res.idx_b[1]

\* C37: in every result, the positions 0..last_equal_idx hold identical steps
\* in both runs; last_equal_idx is one less than the reported divergence
\* position for every status but exact_match, and len(run) - 1 for exact_match.
C37_LastEqualIdx ==
    pc = "done" =>
        /\ Res.last_equal_idx < Len(steps_a) /\ Res.last_equal_idx < Len(steps_b)
        /\ \A q \in 0..Res.last_equal_idx : StepsIdentical(At(steps_a, q), At(steps_b, q))
        /\ IF Res.status = EXACT_MATCH
               THEN Res.last_equal_idx = Len(steps_a) - 1 /\ Res.last_equal_idx = Len(steps_b) - 1
           ELSE /\ Res.idx_a # None \/ Res.idx_b # None
                /\ (Res.idx_a # None /\ Res.idx_b # None) => Res.idx_a = Res.idx_b
                /\ Res.last_equal_idx = DivergencePosition - 1

\* A divergence of the outputs at position 2, after two identical positions.
C37_Witness ==
    /\ pc = "done"
    /\ Res.status = OUTPUT_DIVERGENCE
    /\ Res.idx_a = Some(2) /\ Res.idx_b = Some(2)
    /\ Res.last_equal_idx = 1

\* ------------------------------------------------------------------------
\* C38: mask and drop reveal nothing of the redacted values
\* ------------------------------------------------------------------------
RedactedBoth == call_fn = "redact" /\ call_out # None

OnlyMaskOrDrop(rules) == \A k \in 1..Len(rules) : rules[k].action \in {MASK, DROP}

\* a and b are equal except for the values stored under keys on which a rule
\* fires: the same keys in the same order, any two values under a key a rule
\* matches at its path, and values equal in this sense under the other keys.
RECURSIVE SameButFired(_, _, _, _)
SameButFired(a, b, rules, path) ==
    /\ a.kind = b.kind
    /\ CASE a.kind = "dict" ->
               /\ Len(a.items) = Len(b.items)
               /\ \A k \in 1..Len(a.items) :
                     /\ a.items[k][1] = b.items[k][1]
                     /\ \/ _find_matching_rule(rules, a.items[k][1],
                                                CurrentPath(path, a.items[k][1])) # None
                        \/ SameButFired(a.items[k][2], b.items[k][2], rules,
                                        CurrentPath(path, a.items[k][1]))
          [] a.kind = "list" ->
               /\ Len(a.items) = Len(b.items)
               /\ \A k \in 1..Len(a.items) : SameButFired(a.items[k], b.items[k], rules, path)
          [] OTHER -> a = b

SecretsOnlyDiffer ==
    /\ OnlyMaskOrDrop(call_args.rules)
    /\ SameButFired(call_args.payload, call_args.other, call_args.rules, <<>>)

\* C38: under a policy of mask and drop rules only, two payloads that differ
\* only in the values stored under keys on which a rule fires have the same
\* redacted output; the default SAFE policy is such a policy.
C38_RedactionNonInterference ==
    /\ OnlyMaskOrDrop(DefaultRules)
    /\ (RedactedBoth /\ SecretsOnlyDiffer) => call_out[1].first = call_out[1].second

\* Under the SAFE policy two payloads with different values under api_key and
\* SESSION were redacted to the same output.
C38_Witness ==
    /\ RedactedBoth /\ SecretsOnlyDiffer
    /\ call_args.rules = DefaultRules
    /\ call_args.payload # call_args.other
    /\ call_out[1].first = call_out[1].second
    /\ call_out[1].first # call_args.payload

====
